---- MODULE Spec2Model ----
(***************************************************************************)
(* Control core of terrainbento's ErosionModel                             *)
(* (src/terrainbento/base_class/erosion_model.py): construction, the       *)
(* run / run_for / write_output loop, output writers and the pickle        *)
(* checkpoint.                                                             *)
(*                                                                         *)
(* Times are Python floats (IEEE-754 binary64).  A float is modelled as a  *)
(* signed magnitude: [neg |-> BOOLEAN, mag |-> limbs], where mag is the    *)
(* numeral in base 2^LimbBits (most significant limb first, no leading     *)
(* zero) of |x| * 2^Scale.  Every sum and difference is computed exactly   *)
(* and then rounded to Precision significant bits, ties to even, as the    *)
(* hardware does.                                                          *)
(***************************************************************************)
EXTENDS Integers, Sequences, FiniteSets, TLC

\* ------------------------------------------------------------------------
\* Bounds of the model
\* ------------------------------------------------------------------------
\* Binary digits kept after the binary point: every float of the model is a
\* multiple of 2^-Scale.
Scale == 58
\* Calls of run_one_step explored in one run().
MaxSteps == 9
\* Calls of setup_boundary_handler by the client, after the construction.
MaxSetups == 2
\* Calls of update_boundary_conditions.
MaxUpdates == 2
\* Calls of check_slurm_walltime by the client in one process.
MaxChecks == 2
\* Calls of pickle_self by the client in one process.
MaxPickles == 1
\* Calls of reset_random_seed by the client.
MaxResets == 2
\* Draws from the random stream between two calls of reset_random_seed.
MaxDraws == 3
\* Calls of run_one_step by the client of a stochastic model.
MaxRainSteps == 2
\* calls of get_parameter_from_exponent explored on one engine
MaxGets == 2
\* calls of calc_runoff_and_discharge explored on one engine
MaxRunoffs == 3
\* passes of the stochastic run_for explored in one call
MaxStorms == 8

\* ------------------------------------------------------------------------
\* Python float arithmetic
\* ------------------------------------------------------------------------
\* Significant bits of a Python float (binary64).
Precision == 53

\* A magnitude is a sequence of limbs, most significant first, without a
\* leading zero limb; each limb holds LimbBits bits.
LimbBits == 24
Base == 2^LimbBits

Zeros(n) == [i \in 1..n |-> 0]

RECURSIVE Strip(_)
Strip(b) == IF b = <<>> THEN <<>>
            ELSE IF Head(b) = 0 THEN Strip(Tail(b)) ELSE b

PadTo(b, n) == Zeros(n - Len(b)) \o b

Max2(a, b) == IF a >= b THEN a ELSE b

\* a < b for two magnitudes
MagLT(a, b) ==
    \/ Len(a) < Len(b)
    \/ /\ Len(a) = Len(b)
       /\ \E i \in 1..Len(a) :
             /\ a[i] < b[i]
             /\ \A j \in 1..(i-1) : a[j] = b[j]

\* exact sum of two magnitudes
MagAdd(a, b) ==
    LET n  == Max2(Len(a), Len(b)) + 1
        x  == PadTo(a, n)
        y  == PadTo(b, n)
        c[i \in 1..(n+1)] == IF i = n + 1 THEN 0
                             ELSE (x[i] + y[i] + c[i+1]) \div Base
    IN  Strip([i \in 1..n |-> (x[i] + y[i] + c[i+1]) % Base])

\* exact difference a - b of two magnitudes, a >= b
MagSub(a, b) ==
    LET n  == Len(a)
        y  == PadTo(b, n)
        br[i \in 1..(n+1)] == IF i = n + 1 THEN 0
                              ELSE IF a[i] - y[i] - br[i+1] < 0 THEN 1 ELSE 0
    IN  Strip([i \in 1..n |-> (a[i] - y[i] - br[i+1] + Base) % Base])

\* number of bits of a limb
RECURSIVE LimbLen(_)
LimbLen(x) == IF x = 0 THEN 0 ELSE 1 + LimbLen(x \div 2)

\* number of bits of a magnitude
BitLen(b) == IF b = <<>> THEN 0 ELSE LimbBits * (Len(b) - 1) + LimbLen(b[1])

\* the limb that holds bit k (bit 0 is the least significant)
LimbOf(b, k) == b[Len(b) - (k \div LimbBits)]

\* bit k of a magnitude
Bit(b, k) == (LimbOf(b, k) \div 2^(k % LimbBits)) % 2

\* some bit below bit k is set
LowBits(b, k) ==
    \/ LimbOf(b, k) % 2^(k % LimbBits) # 0
    \/ \E i \in (Len(b) - (k \div LimbBits) + 1)..Len(b) : b[i] # 0

\* the magnitude with the bits below bit k cleared
Truncate(b, k) ==
    [i \in 1..Len(b) |->
        IF i < Len(b) - (k \div LimbBits) THEN b[i]
        ELSE IF i = Len(b) - (k \div LimbBits)
             THEN b[i] - (b[i] % 2^(k % LimbBits))
             ELSE 0]

\* 2^k as a magnitude
Pow2(k) == <<2^(k % LimbBits)>> \o Zeros(k \div LimbBits)

\* round a magnitude to Precision significant bits, ties to even (the
\* magnitude is evaluated once, as m)
RoundMag(b) ==
    CHOOSE r \in
      {IF BitLen(m) <= Precision THEN m
       ELSE LET d  == BitLen(m) - Precision
                up == Bit(m, d - 1) = 1 /\ (LowBits(m, d - 1) \/ Bit(m, d) = 1)
            IN  IF up THEN MagAdd(Truncate(m, d), Pow2(d)) ELSE Truncate(m, d)
       : m \in {b}} : TRUE

Float(neg, mag) == [neg |-> neg /\ mag # <<>>, mag |-> mag]

FZero == Float(FALSE, <<>>)

FNeg(x) == Float(~x.neg, x.mag)

\* x + y, rounded (the operands are evaluated once, as a and b)
FAdd(x, y) ==
    CHOOSE r \in
      {IF a.neg = b.neg THEN Float(a.neg, RoundMag(MagAdd(a.mag, b.mag)))
       ELSE IF MagLT(a.mag, b.mag)
            THEN Float(b.neg, RoundMag(MagSub(b.mag, a.mag)))
            ELSE Float(a.neg, RoundMag(MagSub(a.mag, b.mag)))
       : a \in {x}, b \in {y}} : TRUE

\* x - y, rounded
FSub(x, y) == FAdd(x, FNeg(y))

\* x < y
FLT(x, y) ==
    \E a \in {x}, b \in {y} :
       IF a.neg /\ ~b.neg THEN TRUE
       ELSE IF ~a.neg /\ b.neg THEN FALSE
       ELSE IF a.neg THEN MagLT(b.mag, a.mag)
       ELSE MagLT(a.mag, b.mag)

\* x >= y
FGE(x, y) == ~FLT(x, y)

\* Python's min(x, y): y when y < x, else x
FMin(x, y) == IF FLT(y, x) THEN y ELSE x

\* ------------------------------------------------------------------------
\* Float literals
\* ------------------------------------------------------------------------
\* m * 2^w for 0 < w < LimbBits
MagShl(m, w) ==
    Strip(<<m[1] \div 2^(LimbBits - w)>>
          \o [i \in 1..Len(m) |->
                (m[i] % 2^(LimbBits - w)) * 2^w
                + (IF i < Len(m) THEN m[i+1] \div 2^(LimbBits - w) ELSE 0)])

\* m * 2^k
MagShift(m, k) ==
    IF m = <<>> THEN <<>>
    ELSE (IF k % LimbBits = 0 THEN m ELSE MagShl(m, k % LimbBits))
         \o Zeros(k \div LimbBits)

\* acc + a * (the bits 0..k of b)
RECURSIVE MagMulBits(_, _, _, _)
MagMulBits(a, b, k, acc) ==
    IF k < 0 THEN acc
    ELSE IF Bit(b, k) = 0 THEN MagMulBits(a, b, k - 1, acc)
    ELSE LET next == MagAdd(acc, MagShift(a, k))
         IN  IF next = <<>> THEN <<>>            \* a is zero
             ELSE MagMulBits(a, b, k - 1, next)

\* acc * Base^(the limbs of b from i on) + a * (those limbs)
RECURSIVE MagMulLimbs(_, _, _, _)
MagMulLimbs(a, b, i, acc) ==
    IF i > Len(b) THEN acc
    ELSE LET next == MagAdd(MagShift(acc, LimbBits),
                            MagMulBits(a, <<b[i]>>, LimbBits - 1, <<>>))
         IN  IF next = <<>> THEN MagMulLimbs(a, b, i + 1, <<>>)
             ELSE MagMulLimbs(a, b, i + 1, next)

\* exact product of two magnitudes, one limb of b at a time
MagMul(a, b) == MagMulLimbs(a, b, 1, <<>>)

\* m / 2^k for a magnitude whose k low bits are zero
MagShr(m, k) ==
    LET q == (k + LimbBits - 1) \div LimbBits
        s == MagShift(m, q * LimbBits - k)
    IN  SubSeq(s, 1, Len(s) - q)

\* x * y, rounded (for products of at least 2^-5, whose last place is no
\* finer than 2^-Scale)
FMul(x, y) ==
    CHOOSE r \in
      {Float(a.neg # b.neg, MagShr(RoundMag(MagMul(a.mag, b.mag)), Scale))
       : a \in {x}, b \in {y}} : TRUE

\* the magnitude of a hexadecimal numeral, most significant digit first
RECURSIVE HexMag(_)
HexMag(ds) ==
    IF ds = <<>> THEN <<>>
    ELSE MagAdd(MagShift(HexMag(SubSeq(ds, 1, Len(ds) - 1)), 4),
                Strip(<<ds[Len(ds)]>>))

\* the float whose hex numeral (float.hex()) is 0x1.<13 digits>p<e>:
\* digits holds the 14 hex digits of the 53-bit significand
FromHex(digits, e) == Float(FALSE, MagShift(HexMag(digits), Scale + e - 52))

\* the float of a small integer
FromInt(n) ==
    IF n < 0 THEN Float(TRUE, MagShift(<<-n>>, Scale))
    ELSE Float(FALSE, MagShift(Strip(<<n>>), Scale))

\* 0.025 == 0x1.999999999999ap-6
F0_025 == FromHex(<<1,9,9,9,9,9,9,9,9,9,9,9,9,10>>, -6)
\* 0.2 == 0x1.999999999999ap-3, which is 8 * 0.025 exactly
F0_2 == FromHex(<<1,9,9,9,9,9,9,9,9,9,9,9,9,10>>, -3)
\* 0.5 == 0x1.0000000000000p-1
F0_5 == FromHex(<<1,0,0,0,0,0,0,0,0,0,0,0,0,0>>, -1)
\* 0.1 == 0x1.999999999999ap-4
F0_1 == FromHex(<<1,9,9,9,9,9,9,9,9,9,9,9,9,10>>, -4)
F1 == FromInt(1)
F3 == FromInt(3)
F10 == FromInt(10)

\* ------------------------------------------------------------------------
\* Constructor arguments
\* ------------------------------------------------------------------------
\* A value of the parameter dictionary: absent, None, a non-numeric string,
\* or a number.
Missing == [kind |-> "missing", val |-> FZero]
NoneVal == [kind |-> "None", val |-> FZero]
BadStr  == [kind |-> "str", val |-> FZero]
Num(x)  == [kind |-> "num", val |-> x]

Numbers == {FromInt(-1), FZero, F0_025, F0_2, F0_5}

ParamValues == {Missing, NoneVal, BadStr} \cup {Num(x) : x \in Numbers}

RequiredKeys == <<"dt", "output_interval", "run_duration">>

\* A writer handed to OutputWriters: a class or a plain function.
WriterClass == [name |-> "PlotWriter", kind |-> "class"]
WriterFunction == [name |-> "write_loss", kind |-> "function"]
\* A class whose run_one_step raises RuntimeError.
BrokenWriter == [name |-> "BrokenWriter", kind |-> "class"]
WriterNames == {"PlotWriter", "write_loss", "BrokenWriter"}
WriterLists == {<<>>, <<WriterClass>>, <<WriterFunction>>,
                <<WriterClass, WriterFunction>>, <<BrokenWriter>>}

\* _SUPPORTED_BOUNDARY_HANDLERS, and the keys of _HANDLER_METHODS
SupportedBoundaryHandlers ==
    {"NormalFault", "PrecipChanger", "CaptureNodeBaselevelHandler",
     "ClosedNodeBaselevelHandler", "SingleNodeBaselevelHandler"}
HandlerMethods == SupportedBoundaryHandlers

\* A handler handed to setup_boundary_handler: a name (a string), a handler
\* class, or an instance of a landlab Component.  name is the string, the
\* name of the class, or the instance's __name__ attribute ("" when the
\* instance has none).
HandlerRequests ==
    {[kind |-> "str", name |-> "PrecipChanger"],
     [kind |-> "str", name |-> "NormalFault"],
     [kind |-> "str", name |-> "NotCoreNodeBaselevelHandler"],
     [kind |-> "class", name |-> "NormalFault"],
     [kind |-> "instance", name |-> ""],
     [kind |-> "instance", name |-> "NormalFault"],
     [kind |-> "instance", name |-> "TidalHandler"]}

\* The BoundaryHandlers argument: a handler or a list of handlers (None and
\* the empty list alike: <<>>).
HandlerLists ==
    {<<>>} \cup {<<a>> : a \in HandlerRequests}
           \cup {<<a, b>> : a, b \in {r \in HandlerRequests : r.kind = "str"}}

\* The handler names that have a dictionary of their own in the parameters.
OwnParameters == SUBSET {"PrecipChanger", "NormalFault"}

\* The keys of the parameter dictionary that the derived models read.
ModelKeys == {"water_erodability", "water_erodability_exp",
              "infiltration_capacity",
              "water_erodability~sediment", "water_erodability~rock",
              "frequency_filename", "number_of_sub_time_steps"}

\* A dictionary with none of them.
NoModelParams == [k \in ModelKeys |-> Missing]

\* What a derived class has put in self.outlet_elevation_obj: nothing (the
\* base class never assigns it), None, or a fitted interp1d.
OutletKinds == {"absent", "None", "interp1d"}

\* Arguments explored for the construction itself: every combination of the
\* two inputs and of the required keys, the options at their defaults.
ConstructionConfigs ==
    [input_file : BOOLEAN,          \* an input file was passed
     params : BOOLEAN,              \* a parameter dictionary was passed
     p : [{"dt", "output_interval", "run_duration"} -> ParamValues],
     save_first_timestep : {FALSE},
     load_from_pickle : {FALSE},
     output_filename : {TRUE},
     OutputWriters : {<<>>},
     outlet : {"None"},
     BoundaryHandlers : {<<>>},
     p_BoundaryHandlers : {[given |-> FALSE, value |-> <<>>]},
     own : {{}},
     model : {"ErosionModel"},
     opt_stochastic_duration : {FALSE},
     random_seed : {0},
     daily_rainfall_intermittency_factor : {F0_1},
     record_rain : {"absent"},
     opt_walltime : {FALSE},
     opt_save : {FALSE},
     model_params : {NoModelParams}]

\* Arguments explored for the run: a dictionary with numeric required keys,
\* every combination of the options.
RunConfigs ==
    [input_file : {FALSE},
     params : {TRUE},
     p : [{"dt", "output_interval", "run_duration"} -> {Num(x) : x \in Numbers}],
     save_first_timestep : BOOLEAN,
     load_from_pickle : BOOLEAN,
     output_filename : BOOLEAN,     \* the dictionary has 'output_filename'
     OutputWriters : WriterLists,
     outlet : OutletKinds,
     BoundaryHandlers : {<<>>},
     p_BoundaryHandlers : {[given |-> FALSE, value |-> <<>>]},
     own : {{}},
     model : {"ErosionModel"},
     opt_stochastic_duration : {FALSE},
     random_seed : {0},
     daily_rainfall_intermittency_factor : {F0_1},
     record_rain : {"absent"},
     opt_walltime : {TRUE},     \* the wall-time check is on
     opt_save : {TRUE},
     model_params : {NoModelParams}]

\* Arguments explored for the boundary handlers: the handlers and their
\* parameters vary, the rest is fixed.
HandlerConfigs ==
    [input_file : {FALSE},
     params : {TRUE},
     p : {[k \in {"dt", "output_interval", "run_duration"} |-> Num(F0_5)]},
     save_first_timestep : {FALSE},
     load_from_pickle : {FALSE},
     output_filename : {TRUE},
     OutputWriters : {<<>>},
     outlet : {"None"},
     BoundaryHandlers : HandlerLists,      \* the argument
     p_BoundaryHandlers :                  \* params['BoundaryHandlers']
         {[given |-> FALSE, value |-> <<>>],
          [given |-> TRUE, value |-> <<[kind |-> "str", name |-> "PrecipChanger"]>>]},
     own : OwnParameters,
     model : {"ErosionModel"},
     opt_stochastic_duration : {FALSE},
     random_seed : {0},
     daily_rainfall_intermittency_factor : {F0_1},
     record_rain : {"absent"},
     opt_walltime : {FALSE},
     opt_save : {FALSE},
     model_params : {NoModelParams}]

Configs == ConstructionConfigs \cup RunConfigs

\* ------------------------------------------------------------------------
\* State
\* ------------------------------------------------------------------------
VARIABLES
    cfg,                  \* arguments of ErosionModel(...) and the dictionary
    state,                \* lifecycle of the engine / process
    pc,                   \* position inside run()
    error,                \* the exception that ended construction or run()
    model_time,           \* self._model_time
    iteration,            \* self.iteration (-1: attribute not yet set)
    output_writers,       \* self.output_writers
    outlet_elevation_obj, \* self.outlet_elevation_obj
    dict_random_state,    \* 'random_state' is a key of self.__dict__
    time_now,             \* run(): time_now
    next_run_pause,       \* run(): next_run_pause
    rf,                   \* run_for(): dt, runtime, elapsed_time, keep_running
    np_random,            \* state of the global numpy random stream
    pickle_file,          \* the file at self.save_model_name
    outputs,              \* names of the files written by write_output
    steps,                \* calls of run_one_step in this run()
    rf_calls,             \* calls of run_one_step in this run_for()
    finalize_calls,       \* calls of finalize()
    fired,                \* per writer: times fired by run_output_writers
    registered,           \* per writer: times called by setup_output_writer
    remove_calls,         \* calls of os.remove(self.save_model_name)
    loaded,               \* snapshot the constructor restored from, if any
    boundary_handler,     \* self.boundary_handler, in insertion order
    self_params,          \* self.params[name] of the handlers that have one
    setup_calls,          \* calls of setup_boundary_handler by the client
    last_setup,           \* the last call of setup_boundary_handler
    ubc_calls,            \* calls of update_boundary_conditions
    ubc_dt,               \* the dt of the last of them
    compute_time,         \* len(self._compute_time)
    walltime_calls,       \* calls of check_slurm_walltime by the client
    last_check,           \* the last of them: its inputs and what it did
    pickle_calls,         \* calls of pickle_self by the client
    rain_record,          \* self.rain_record: None, or four lists
    draws,                \* what the stream gave since the last reseeding
    reference,            \* what it gave after an earlier reset_random_seed
    resets,               \* calls of reset_random_seed
    get_calls,            \* calls of get_parameter_from_exponent
    last_get,             \* the last call: its arguments and its outcome
    rain_rate,            \* self.rain_rate
    exp_value,            \* what np.exp returned in the last calc_runoff_and_discharge
    runoff,               \* what calc_runoff_and_discharge returned
    discharge,            \* self.discharge at the node followed
    runoff_calls,         \* calls of calc_runoff_and_discharge
    K_sed,                \* self.K_sed
    K_br,                 \* self.K_br
    eroder,               \* self.eroder: K_sed and K_br of the Space component
    at_node_finite        \* no field of self.grid.at_node holds a NaN or an Inf

vars == <<cfg, state, pc, error, model_time, iteration, output_writers,
          outlet_elevation_obj, dict_random_state, time_now, next_run_pause,
          rf, np_random, pickle_file, outputs, steps, rf_calls,
          finalize_calls, fired, registered, remove_calls, loaded,
          boundary_handler, self_params, setup_calls, last_setup, ubc_calls,
          ubc_dt, compute_time, walltime_calls, last_check, pickle_calls,
          rain_record,
          draws, reference, resets,
          get_calls, last_get,
          rain_rate, exp_value, runoff, discharge, runoff_calls,
          K_sed, K_br, eroder, at_node_finite>>

\* the state of the boundary handlers
hvars == <<boundary_handler, self_params, setup_calls, last_setup, ubc_calls,
           ubc_dt>>

\* the state of the wall-time check
wvars == <<compute_time, walltime_calls, last_check, pickle_calls>>

\* the state of the storm sequence
svars == <<rain_record, draws, reference, resets>>

\* What get_parameter_from_exponent was asked and what it gave.
evars == <<get_calls, last_get>>

\* What calc_runoff_and_discharge was given and what it computed.
rvars == <<rain_rate, exp_value, runoff, discharge, runoff_calls>>

\* The state of BasicHySa: its erodabilities, those of its eroder, its fields.
yvars == <<K_sed, K_br, eroder, at_node_finite>>

NoError == [type |-> "none", key |-> "", at |-> ""]
Err(type, key, at) == [type |-> type, key |-> key, at |-> at]

NoFile == [kind |-> "absent", model_time |-> FZero, iteration |-> -1,
           random_state |-> 0, outlet |-> "absent"]
EmptyFile == [NoFile EXCEPT !.kind = "empty"]

\* (start: the model time when run_for was called)
NoRunFor == [dt |-> FZero, runtime |-> FZero, elapsed_time |-> FZero,
             keep_running |-> FALSE, start |-> FZero]

NoWriters == [class |-> <<>>, function |-> <<>>]

\* self.rain_record: None, or a dictionary of four lists
NoRainRecord == [kind |-> "None"]
EmptyRainRecord ==
    [kind |-> "dict", event_start_time |-> <<>>, event_duration |-> <<>>,
     rainfall_rate |-> <<>>, runoff_rate |-> <<>>]

\* No eroder has been instantiated.
NoEroder == [K_sed |-> FZero, K_br |-> FZero]

\* get_parameter_from_exponent has not been called.
NoGet == [called |-> FALSE, param_name |-> "", raise_error |-> FALSE,
          error |-> NoError, value |-> Missing]

\* no call of check_slurm_walltime yet
NoCheck == [called |-> FALSE, job_id |-> FALSE, squeue |-> "none",
            output |-> "none", reply |-> [kind |-> "none"], cut_off_time |-> 0,
            queried |-> FALSE, remaining_time |-> -1, error |-> NoError,
            outcome |-> "none"]

NoSetup == [request |-> [kind |-> "none", name |-> ""], error |-> NoError,
            changed |-> FALSE]

\* os.path.exists(self.save_model_name)
Exists(f) == f.kind # "absent"

\* before ErosionModel(...) is called
InitialState ==
    /\ state = "UNINITIALIZED"
    /\ pc = "none"
    /\ error = NoError
    /\ model_time = FZero
    /\ iteration = -1
    /\ output_writers = NoWriters
    /\ outlet_elevation_obj = "absent"
    /\ dict_random_state = FALSE
    /\ time_now = FZero
    /\ next_run_pause = FZero
    /\ rf = NoRunFor
    /\ np_random = 0
    /\ pickle_file = NoFile
    /\ outputs = <<>>
    /\ steps = 0
    /\ rf_calls = 0
    /\ finalize_calls = 0
    /\ fired = [w \in WriterNames |-> 0]
    /\ registered = [w \in WriterNames |-> 0]
    /\ remove_calls = 0
    /\ loaded = NoFile
    /\ boundary_handler = <<>>
    /\ self_params = <<>>
    /\ setup_calls = 0
    /\ last_setup = NoSetup
    /\ ubc_calls = 0
    /\ ubc_dt = FZero
    /\ compute_time = 0
    /\ walltime_calls = 0
    /\ last_check = NoCheck
    /\ pickle_calls = 0
    /\ rain_record = NoRainRecord
    /\ draws = <<>>
    /\ reference = <<>>
    /\ resets = 0
    /\ get_calls = 0
    /\ last_get = NoGet
    /\ rain_rate = FZero
    /\ exp_value = FZero
    /\ runoff = FZero
    /\ discharge = FZero
    /\ runoff_calls = 0
    /\ K_sed = FZero
    /\ K_br = FZero
    /\ eroder = NoEroder
    /\ at_node_finite = TRUE

Init == cfg \in Configs /\ InitialState

\* ------------------------------------------------------------------------
\* Boundary handlers
\* ------------------------------------------------------------------------
\* the keys of self.params
GlobalKeys(c, sp) ==
    {"dt", "output_interval", "run_duration", "length_factor"}
    \cup DOMAIN sp
    \cup (IF c.p_BoundaryHandlers.given THEN {"BoundaryHandlers"} ELSE {})
    \cup (IF c.output_filename THEN {"output_filename"} ELSE {})

\* the choice of handler_params without its first branch: always self.params
HandlerParams_Global(c, sp, name) ==
    [from |-> "params", keys |-> GlobalKeys(c, sp)]

\* handler_params: the handler's own dictionary if the parameters have one,
\* all the parameters otherwise
HandlerParams(c, sp, name) ==
    IF name \in DOMAIN sp
    THEN [from |-> name, keys |-> sp[name]]
    ELSE [from |-> "params", keys |-> GlobalKeys(c, sp)]

\* handler_params['length_factor'] = self._length_factor, on self.params[name]
AddLengthFactor(sp, name) ==
    IF name \in DOMAIN sp
    THEN [sp EXCEPT ![name] = @ \cup {"length_factor"}]
    ELSE sp

\* an assignment that always adds an entry
DictSet_Append(d, name, value) == Append(d, value)

\* d[name] = value on a dictionary kept in insertion order
DictSet(d, name, value) ==
    IF \E i \in 1..Len(d) : d[i].name = name
    THEN [i \in 1..Len(d) |-> IF d[i].name = name THEN value ELSE d[i]]
    ELSE Append(d, value)

\* setup_boundary_handler(handler): the exception it raises, the registry and
\* the parameters after it
SetupBoundaryHandler(c, bh, sp, handler) ==
    IF handler.kind = "instance" /\ handler.name = ""
    THEN [error |-> Err("AttributeError", "", "handler.__name__"),
          boundary_handler |-> bh, self_params |-> sp]
    ELSE IF handler.kind = "class"
            \/ (handler.kind = "str" /\ handler.name \notin HandlerMethods)
    THEN [error |-> Err("KeyError", handler.name, "_HANDLER_METHODS[name]"),
          boundary_handler |-> bh, self_params |-> sp]
    ELSE IF handler.name \notin SupportedBoundaryHandlers
    THEN [error |-> Err("ValueError", handler.name,
                        "Only supported boundary condition handlers are permitted"),
          boundary_handler |-> bh, self_params |-> sp]
    ELSE IF handler.kind = "instance"
    THEN [error |-> Err("TypeError", handler.name, "handler(self.grid, ...)"),
          boundary_handler |-> bh,
          self_params |-> AddLengthFactor(sp, handler.name)]
    ELSE [error |-> NoError,
          boundary_handler |->
              DictSet(bh, handler.name,
                      [name |-> handler.name,
                       args |-> HandlerParams(c, AddLengthFactor(sp, handler.name),
                                              handler.name),
                       dts |-> <<>>]),
          self_params |-> AddLengthFactor(sp, handler.name)]

\* what is remembered of a call of setup_boundary_handler
SetupRecord(bh, handler, r) ==
    [request |-> handler, error |-> r.error,
     changed |-> r.boundary_handler # bh]

\* the constructor's loop over BoundaryHandlers: it ends at the first error
RECURSIVE SetupBoundaryHandlers(_, _, _, _, _)
SetupBoundaryHandlers(c, bh, sp, handlers, last) ==
    IF handlers = <<>>
    THEN [error |-> NoError, boundary_handler |-> bh, self_params |-> sp,
          last |-> last]
    ELSE LET r == SetupBoundaryHandler(c, bh, sp, Head(handlers))
         IN  IF r.error # NoError
             THEN [error |-> r.error, boundary_handler |-> r.boundary_handler,
                   self_params |-> r.self_params,
                   last |-> SetupRecord(bh, Head(handlers), r)]
             ELSE SetupBoundaryHandlers(c, r.boundary_handler, r.self_params,
                                        Tail(handlers),
                                        SetupRecord(bh, Head(handlers), r))

\* the handlers the constructor sets up: params['BoundaryHandlers'] if there
\* is one, the argument otherwise
BoundaryHandlers(c) ==
    IF c.p_BoundaryHandlers.given THEN c.p_BoundaryHandlers.value
    ELSE c.BoundaryHandlers

\* a loop that runs only the first handler
RunHandlers_First(bh, dt) ==
    [i \in 1..Len(bh) |-> IF i = 1 THEN [bh[i] EXCEPT !.dts = Append(@, dt)]
                          ELSE bh[i]]

\* for handler_name in self.boundary_handler: run_one_step(dt)
RunHandlers(bh, dt) ==
    [i \in 1..Len(bh) |-> [bh[i] EXCEPT !.dts = Append(@, dt)]]

\* ------------------------------------------------------------------------
\* ErosionModel.__init__
\* ------------------------------------------------------------------------
\* float(v): the exception it raises, or "none"
FloatConversion(v) ==
    CASE v.kind = "num"  -> "none"
      [] v.kind = "str"  -> "ValueError"
      [] v.kind = "None" -> "TypeError"

\* one pass of the loop over the required keys
CheckRequired(p, req) ==
    IF p[req].kind # "missing"
    THEN IF FloatConversion(p[req]) = "none" THEN NoError
         ELSE IF FloatConversion(p[req]) = "ValueError"
              THEN Err("ValueError", req, "not compatible with type float")
              ELSE Err(FloatConversion(p[req]), "", "float()")
    ELSE Err("ValueError", req, "was not provided")

\* the loop over ['dt', 'output_interval', 'run_duration']: the first error
RECURSIVE RequiredParameters(_, _)
RequiredParameters(p, keys) ==
    IF keys = <<>> THEN NoError
    ELSE IF CheckRequired(p, Head(keys)) # NoError
         THEN CheckRequired(p, Head(keys))
         ELSE RequiredParameters(p, Tail(keys))

\* the input check without its second branch: both inputs pass
InputCheck_NoBoth(c) ==
    IF ~c.input_file /\ ~c.params
    THEN Err("ValueError", "", "neither were supplied")
    ELSE NoError

\* the check that one of input_file and params, and not both, was supplied
InputCheck(c) ==
    IF ~c.input_file /\ ~c.params
    THEN Err("ValueError", "", "neither were supplied")
    ELSE IF c.input_file /\ c.params
         THEN Err("ValueError", "", "both were supplied")
         ELSE NoError

\* params.get('flow_director', ...) reads the argument, not self.params
FlowDirectorRead(c) ==
    IF c.params THEN NoError
    ELSE Err("AttributeError", "", "params.get")

\* setup_output_writer(writer): isinstance(writer, object) holds of a class
\* and of a function alike, so either is called with the model and the
\* result is stored under its name in output_writers['class']
SetupOutputWriter(ow, writer) ==
    IF \E i \in 1..Len(ow.class) : ow.class[i] = writer.name
    THEN ow
    ELSE [ow EXCEPT !.class = Append(ow.class, writer.name)]

RECURSIVE SetupOutputWriters(_, _)
SetupOutputWriters(ow, writers) ==
    IF writers = <<>> THEN ow
    ELSE SetupOutputWriters(SetupOutputWriter(ow, Head(writers)), Tail(writers))

\* times setup_output_writer calls the writer w
Calls(writers, w) == Cardinality({i \in 1..Len(writers) : writers[i].name = w})

\* the constructor's branch: load the pickled instance or initialise
LoadsPickle(c, f) == c.load_from_pickle /\ Exists(f)

\* unpickle_self: dill.load builds a model from the file (running
\* __setstate__ on the pickled dictionary, which sets the numpy random state),
\* then self.__setstate__(model) is handed that model, not a dictionary, and
\* model.pop does not exist
UnpickleSelf(f) ==
    IF f.kind = "empty" THEN Err("EOFError", "", "dill.load")
    ELSE Err("AttributeError", "", "state_dict.pop")

\* self.params[k]; Missing when k is not a key of the dictionary.
Lookup(params, k) == IF k \in DOMAIN params THEN params[k] ELSE Missing

\* k in self.params
HasKey(params, k) == Lookup(params, k).kind # "missing"

\* 10.**x for the whole exponents explored: 10.**-1 is the double nearest
\* to 1/10, 10.**0 is 1, and a positive whole power is an exact product.
RECURSIVE TenTo(_)
TenTo(x) ==
    IF x = FZero THEN F1
    ELSE IF x = FromInt(-1) THEN F0_1
    ELSE FMul(F10, TenTo(FSub(x, F1)))

\* 10.**float(v): float() raises TypeError on None and ValueError on a
\* string that is not a number.
PowerOfTen(v, name) ==
    CASE v.kind = "None" -> [error |-> Err("TypeError", name, "float"), value |-> Missing]
      [] v.kind = "str"  -> [error |-> Err("ValueError", name, "float"), value |-> Missing]
      [] OTHER           -> [error |-> NoError, value |-> Num(TenTo(v.val))]

\* The same function returning the exponent itself.
GetParameterFromExponent_Raw(params, param_name, raise_error) ==
    LET exp_name == param_name \o "_exp" IN
    CASE HasKey(params, param_name) /\ HasKey(params, exp_name) ->
           [error |-> Err("ValueError", param_name, "both"), value |-> Missing]
      [] HasKey(params, param_name) /\ ~HasKey(params, exp_name) ->
           [error |-> NoError, value |-> params[param_name]]
      [] ~HasKey(params, param_name) /\ HasKey(params, exp_name) ->
           [error |-> NoError, value |-> params[exp_name]]
      [] OTHER ->
           IF raise_error
           THEN [error |-> Err("ValueError", param_name, "neither"), value |-> Missing]
           ELSE [error |-> NoError, value |-> NoneVal]

\* get_parameter_from_exponent(param_name, raise_error): the error raised,
\* or the value returned.
GetParameterFromExponent(params, param_name, raise_error) ==
    LET exp_name == param_name \o "_exp" IN
    CASE HasKey(params, param_name) /\ HasKey(params, exp_name) ->
           [error |-> Err("ValueError", param_name, "both"), value |-> Missing]
      [] HasKey(params, param_name) /\ ~HasKey(params, exp_name) ->
           [error |-> NoError, value |-> params[param_name]]
      [] ~HasKey(params, param_name) /\ HasKey(params, exp_name) ->
           PowerOfTen(params[exp_name], exp_name)
      [] OTHER ->
           IF raise_error
           THEN [error |-> Err("ValueError", param_name, "neither"), value |-> Missing]
           ELSE [error |-> NoError, value |-> NoneVal]

\* self.get_parameter_from_exponent(name) in BasicHySa.__init__, for a
\* dictionary that gives the parameter
HySaParameter(c, name) ==
    GetParameterFromExponent(c.model_params, name, TRUE).value.val

\* self.record_rain = self.params.get('record_rain', False)
RecordRain(c) == c.record_rain = "True"

\* the stochastic models
StochasticModels == {"StochasticErosionModel", "BasicSt"}

\* self.rain_record after __init__
InitialRainRecord(c) == IF RecordRain(c) THEN EmptyRainRecord ELSE NoRainRecord

\* A test that every number passes.
IsWhole_Any(x) == TRUE

\* x is a whole number
IsWhole(x) ==
    \/ x.mag = <<>>
    \/ BitLen(x.mag) > Scale /\ ~LowBits(x.mag, Scale)

\* StochasticErosionModel.__init__ and instantiate_rain_generator: a
\* frequency file together with the variable-duration mode is refused, and
\* so is, in the fixed-duration mode, a number of sub time steps that is
\* not whole
StochasticInit_Lenient(c) ==
    IF /\ c.model \in StochasticModels
       /\ ~c.opt_stochastic_duration
       /\ c.model_params["number_of_sub_time_steps"].kind = "num"
       /\ ~IsWhole(c.model_params["number_of_sub_time_steps"].val)
    THEN Err("ValueError", "number_of_sub_time_steps", "must be a whole number")
    ELSE NoError

StochasticInit(c) ==
    IF c.model \notin StochasticModels THEN NoError
    ELSE IF c.opt_stochastic_duration /\ HasKey(c.model_params, "frequency_filename")
    THEN Err("ValueError", "frequency_filename", "opt_stochastic_duration")
    ELSE IF /\ ~c.opt_stochastic_duration
            /\ c.model_params["number_of_sub_time_steps"].kind = "num"
            /\ ~IsWhole(c.model_params["number_of_sub_time_steps"].val)
    THEN Err("ValueError", "number_of_sub_time_steps", "must be a whole number")
    ELSE NoError

ConstructFails(e) ==
    /\ state' = "FAILED"
    /\ error' = e
    /\ UNCHANGED <<cfg, pc, model_time, iteration, output_writers,
                   outlet_elevation_obj, dict_random_state, time_now,
                   next_run_pause, rf, pickle_file, outputs, steps, rf_calls,
                   finalize_calls, fired, registered, remove_calls>>

\* self.params[name] for the handler names that have a dictionary
OwnDictionaries(c) == [n \in c.own |-> {"parameters"}]

Construct ==
    /\ state = "UNINITIALIZED"
    /\ UNCHANGED <<setup_calls, ubc_calls, ubc_dt, walltime_calls, last_check,
                   pickle_calls>>
    /\ IF InputCheck(cfg) # NoError
       THEN /\ ConstructFails(InputCheck(cfg))
            /\ UNCHANGED <<np_random, loaded, boundary_handler, self_params,
                           last_setup>>
       ELSE IF LoadsPickle(cfg, pickle_file)
       THEN /\ ConstructFails(UnpickleSelf(pickle_file))
            /\ loaded' = pickle_file
            /\ np_random' = IF pickle_file.kind = "pickle"
                            THEN pickle_file.random_state ELSE np_random
            /\ UNCHANGED <<boundary_handler, self_params, last_setup>>
       ELSE IF RequiredParameters(cfg.p, RequiredKeys) # NoError
       THEN /\ ConstructFails(RequiredParameters(cfg.p, RequiredKeys))
            /\ UNCHANGED <<np_random, loaded, boundary_handler, self_params,
                           last_setup>>
       ELSE IF FlowDirectorRead(cfg) # NoError
       THEN /\ ConstructFails(FlowDirectorRead(cfg))
            /\ UNCHANGED <<np_random, loaded, boundary_handler, self_params,
                           last_setup>>
       ELSE LET h == SetupBoundaryHandlers(cfg, <<>>, OwnDictionaries(cfg),
                                           BoundaryHandlers(cfg), NoSetup)
            IN  IF h.error # NoError
                THEN /\ ConstructFails(h.error)
                     /\ last_setup' = h.last
                     /\ UNCHANGED <<np_random, loaded, boundary_handler,
                                    self_params>>
                ELSE IF StochasticInit(cfg) # NoError
                THEN /\ ConstructFails(StochasticInit(cfg))
                     /\ last_setup' = h.last
                     /\ UNCHANGED <<np_random, loaded, boundary_handler,
                                    self_params>>
                ELSE /\ state' = "READY"
                     /\ model_time' = FZero
                     /\ boundary_handler' = h.boundary_handler
                     /\ self_params' = h.self_params
                     /\ last_setup' = h.last
                     /\ output_writers' =
                            SetupOutputWriters(NoWriters, cfg.OutputWriters)
                     /\ registered' =
                            [w \in WriterNames |-> Calls(cfg.OutputWriters, w)]
                     /\ outlet_elevation_obj' = cfg.outlet
                     /\ UNCHANGED <<cfg, pc, error, iteration,
                                    dict_random_state, time_now, next_run_pause,
                                    rf, np_random, pickle_file, outputs, steps,
                                    rf_calls, finalize_calls, fired,
                                    remove_calls, loaded>>
    \* StochasticErosionModel.__init__: the rain record
    /\ rain_record' = IF state' = "READY" /\ cfg.model \in StochasticModels
                      THEN InitialRainRecord(cfg) ELSE rain_record
    /\ UNCHANGED <<draws, reference, resets>>
    \* self._compute_time = [tm.time()]
    /\ compute_time' = IF state' = "READY" THEN 1 ELSE compute_time
    /\ UNCHANGED evars
    /\ UNCHANGED rvars
    \* BasicHySa.__init__, after ErosionModel.__init__: the erodabilities
    \* (for a unit length factor) and the Space component
    /\ IF state' = "READY" /\ cfg.model = "BasicHySa"
       THEN /\ K_br' = HySaParameter(cfg, "water_erodability~rock")
            /\ K_sed' = HySaParameter(cfg, "water_erodability~sediment")
            /\ eroder' = [K_sed |-> K_sed', K_br |-> K_br']
            /\ UNCHANGED at_node_finite
       ELSE UNCHANGED yvars

\* ------------------------------------------------------------------------
\* write_output and run_output_writers
\* ------------------------------------------------------------------------
Digit(d) == CASE d = 0 -> "0" [] d = 1 -> "1" [] d = 2 -> "2" [] d = 3 -> "3"
              [] d = 4 -> "4" [] d = 5 -> "5" [] d = 6 -> "6" [] d = 7 -> "7"
              [] d = 8 -> "8" [] d = 9 -> "9"

\* str(n) for n >= 0, one string per character
RECURSIVE Str(_)
Str(n) == IF n < 10 THEN <<Digit(n)>> ELSE Str(n \div 10) \o <<Digit(n % 10)>>

\* s.zfill(width)
Zfill(s, width) ==
    IF Len(s) >= width THEN s ELSE [i \in 1..(width - Len(s)) |-> "0"] \o s

\* self.params['output_filename'] + str(self.iteration).zfill(4) + '.nc'
Filename(it) == <<"output_filename">> \o Zfill(Str(it), 4) \o <<".nc">>

\* the keys of self.output_writers
WriterKeys == {"class", "function"}

\* times w occurs in the list of function writers
Occurs(fs, w) == Cardinality({i \in 1..Len(fs) : fs[i] = w})

\* the writer w raises when it is fired
Raises(w) == w = BrokenWriter.name

\* the loop over output_writers['function']: each function is called with the
\* model, and the first that raises ends the loop
RECURSIVE RunFunctions(_, _)
RunFunctions(fs, f) ==
    IF fs = <<>> THEN [error |-> NoError, fired |-> f]
    ELSE IF Raises(Head(fs))
         THEN [error |-> Err("RuntimeError", Head(fs), "function(self)"),
               fired |-> f]
         ELSE RunFunctions(Tail(fs), [f EXCEPT ![Head(fs)] = @ + 1])

\* run_output_writers: the loop over output_writers['class'] looks each name
\* up in self.output_writers itself, then the functions are called
RunOutputWriters(ow, f) ==
    IF ow.class # <<>>
    THEN [error |-> IF Head(ow.class) \in WriterKeys
                    THEN Err("AttributeError", Head(ow.class), "run_one_step")
                    ELSE Err("KeyError", Head(ow.class), "self.output_writers[name]"),
          fired |-> f]
    ELSE RunFunctions(ow.function, f)

\* write_output at iteration it: the file, then the writers
WriteOutput(it, outs, ow, f) ==
    IF ~cfg.output_filename
    THEN [error |-> Err("KeyError", "output_filename", "self.params"),
          outputs |-> outs, fired |-> f]
    ELSE [error |-> RunOutputWriters(ow, f).error,
          outputs |-> Append(outs, Filename(it)),
          fired |-> RunOutputWriters(ow, f).fired]

\* ------------------------------------------------------------------------
\* run and run_for
\* ------------------------------------------------------------------------
total_run_duration == cfg.p["run_duration"].val
output_interval == cfg.p["output_interval"].val

\* run(): an exception leaves run()
Raise(e) ==
    /\ state' = "ABORTED"
    /\ pc' = "none"
    /\ error' = e

\* run(), up to the loop: the first output if save_first_timestep
RunBegin ==
    /\ state = "READY"
    /\ LET w == IF cfg.save_first_timestep
                THEN WriteOutput(0, outputs, output_writers, fired)
                ELSE [error |-> NoError, outputs |-> outputs, fired |-> fired]
       IN  /\ outputs' = w.outputs
           /\ fired' = w.fired
           /\ IF w.error # NoError
              THEN /\ Raise(w.error)
                   /\ iteration' = 0
                   /\ UNCHANGED time_now
              ELSE /\ state' = "RUNNING"
                   /\ pc' = "loop"
                   /\ iteration' = 1
                   /\ time_now' = model_time
                   /\ UNCHANGED error
    /\ UNCHANGED hvars
    /\ UNCHANGED <<cfg, model_time, output_writers, outlet_elevation_obj,
                   dict_random_state, next_run_pause, rf, np_random,
                   pickle_file, steps, rf_calls, finalize_calls, registered, remove_calls,
                   loaded>>
    /\ UNCHANGED wvars
    /\ UNCHANGED svars
    /\ UNCHANGED evars
    /\ UNCHANGED rvars
    /\ UNCHANGED yvars

\* a loop test that stops one output interval early
KeepRunning_Early(t) == FLT(FAdd(t, output_interval), total_run_duration)

\* while time_now < total_run_duration
KeepRunning(t) == FLT(t, total_run_duration)

\* min(time_now + output_interval, total_run_duration)
NextRunPause(t) == FMin(FAdd(t, output_interval), total_run_duration)

\* an iteration counter that is left as it is
NextIteration_Stuck(it) == it

\* self.iteration += 1
NextIteration(it) == it + 1

\* the test of run()'s while loop, and the call of run_for
RunLoop ==
    /\ state = "RUNNING"
    /\ pc = "loop"
    /\ IF KeepRunning(time_now)
       THEN /\ next_run_pause' = NextRunPause(time_now)
            /\ rf' = [dt |-> cfg.p["dt"].val,
                      runtime |-> FSub(next_run_pause', time_now),
                      elapsed_time |-> FZero,
                      keep_running |-> TRUE,
                      start |-> model_time]
            /\ rf_calls' = 0
            /\ pc' = "run_for"
       ELSE /\ pc' = "finalize"
            /\ UNCHANGED <<next_run_pause, rf, rf_calls>>
    /\ UNCHANGED hvars
    /\ UNCHANGED <<cfg, state, error, model_time, iteration, output_writers,
                   outlet_elevation_obj, dict_random_state, time_now,
                   np_random, pickle_file, outputs, steps, finalize_calls,
                   fired, registered, remove_calls, loaded>>
    /\ UNCHANGED wvars
    /\ UNCHANGED svars
    /\ UNCHANGED evars
    /\ UNCHANGED rvars
    /\ UNCHANGED yvars

\* run_for's test: the step that reaches runtime is the last
LastStep(r) == FGE(FAdd(r.elapsed_time, r.dt), r.runtime)

\* the duration run_for hands to run_one_step
StepDt(r) == IF LastStep(r) THEN FSub(r.runtime, r.elapsed_time) ELSE r.dt

\* one pass of run_for's loop
RunForPass(r) ==
    [dt |-> StepDt(r),
     runtime |-> r.runtime,
     elapsed_time |-> FAdd(r.elapsed_time, StepDt(r)),
     keep_running |-> ~LastStep(r),
     start |-> r.start]

\* finalize__run_one_step(dt), called by every run_one_step: the boundary
\* handlers are run (RunHandlers) and model time moves on by dt
FinalizeRunOneStep(t, dt) == FAdd(t, dt)

RunForStep ==
    /\ state = "RUNNING"
    /\ pc = "run_for"
    /\ steps < MaxSteps
    /\ rf' = RunForPass(rf)
    /\ model_time' = FinalizeRunOneStep(model_time, StepDt(rf))
    /\ np_random' = np_random + 1
    /\ steps' = steps + 1
    /\ rf_calls' = rf_calls + 1
    /\ pc' = IF rf'.keep_running THEN "run_for" ELSE "write"
    /\ boundary_handler' = RunHandlers(boundary_handler, StepDt(rf))
    /\ UNCHANGED <<self_params, setup_calls, last_setup, ubc_calls, ubc_dt>>
    /\ UNCHANGED <<cfg, state, error, iteration, output_writers,
                   outlet_elevation_obj, dict_random_state, time_now,
                   next_run_pause, pickle_file, outputs, finalize_calls,
                   fired, registered, remove_calls, loaded>>
    /\ UNCHANGED wvars
    /\ UNCHANGED svars
    /\ UNCHANGED evars
    /\ UNCHANGED rvars
    /\ UNCHANGED yvars

\* run(), after run_for: time_now, write_output, iteration += 1
RunWrite ==
    /\ state = "RUNNING"
    /\ pc = "write"
    /\ time_now' = next_run_pause
    /\ LET w == WriteOutput(iteration, outputs, output_writers, fired)
       IN  /\ outputs' = w.outputs
           /\ fired' = w.fired
           /\ IF w.error # NoError
              THEN Raise(w.error) /\ UNCHANGED iteration
              ELSE /\ iteration' = NextIteration(iteration)
                   /\ pc' = "loop"
                   /\ UNCHANGED <<state, error>>
    /\ UNCHANGED hvars
    /\ UNCHANGED <<cfg, model_time, output_writers, outlet_elevation_obj,
                   dict_random_state, next_run_pause, rf, np_random,
                   pickle_file, steps, rf_calls, finalize_calls, registered, remove_calls,
                   loaded>>
    /\ UNCHANGED wvars
    /\ UNCHANGED svars
    /\ UNCHANGED evars
    /\ UNCHANGED rvars
    /\ UNCHANGED yvars

\* run(): self.finalize()
Finalize ==
    /\ state = "RUNNING"
    /\ pc = "finalize"
    /\ finalize_calls' = finalize_calls + 1
    /\ pc' = "remove"
    /\ UNCHANGED hvars
    /\ UNCHANGED <<cfg, state, error, model_time, iteration, output_writers,
                   outlet_elevation_obj, dict_random_state, time_now,
                   next_run_pause, rf, np_random, pickle_file, outputs, steps,
                   rf_calls, fired, registered, remove_calls, loaded>>
    /\ UNCHANGED wvars
    /\ UNCHANGED svars
    /\ UNCHANGED evars
    /\ UNCHANGED rvars
    /\ UNCHANGED yvars

\* if os.path.exists(self.save_model_name): os.remove(self.save_model_name)
RemoveSaved(f) == IF Exists(f) THEN NoFile ELSE f

\* run(): remove the saved model object if it exists, and return
RemoveSavedModel ==
    /\ state = "RUNNING"
    /\ pc = "remove"
    /\ pickle_file' = RemoveSaved(pickle_file)
    /\ remove_calls' = IF Exists(pickle_file) THEN remove_calls + 1
                       ELSE remove_calls
    /\ state' = "FINALIZED"
    /\ pc' = "done"
    /\ UNCHANGED hvars
    /\ UNCHANGED <<cfg, error, model_time, iteration, output_writers,
                   outlet_elevation_obj, dict_random_state, time_now,
                   next_run_pause, rf, np_random, outputs, steps, rf_calls,
                   finalize_calls, fired, registered, loaded>>
    /\ UNCHANGED wvars
    /\ UNCHANGED svars
    /\ UNCHANGED evars
    /\ UNCHANGED rvars
    /\ UNCHANGED yvars

\* ------------------------------------------------------------------------
\* The checkpoint
\* ------------------------------------------------------------------------
\* __getstate__ reads self.outlet_elevation_obj
GetStateError(obj) ==
    IF obj = "absent" THEN Err("AttributeError", "outlet_elevation_obj", "__getstate__")
    ELSE IF obj = "dict" THEN Err("AttributeError", "x", "__getstate__")
    ELSE NoError

\* __getstate__: state_dict is self.__dict__ itself; an interp1d is replaced
\* in it by the dictionary of its x and y
GetStateOutlet(obj) == IF obj = "interp1d" THEN "dict" ELSE obj

\* the pickled dictionary
Snapshot(t, it, rs, obj) ==
    [kind |-> "pickle", model_time |-> t, iteration |-> it,
     random_state |-> rs, outlet |-> obj]

\* check_slurm_walltime with too little time left, after a step:
\* pickle_self(), then sys.exit()
PickleSelf ==
    /\ cfg.opt_walltime /\ cfg.opt_save
    /\ state = "RUNNING"
    /\ pc \in {"run_for", "write"}
    /\ rf_calls > 0
    /\ dict_random_state' = TRUE
    /\ IF GetStateError(outlet_elevation_obj) # NoError
       THEN /\ pickle_file' = EmptyFile
            /\ Raise(GetStateError(outlet_elevation_obj))
            /\ UNCHANGED outlet_elevation_obj
       ELSE /\ outlet_elevation_obj' = GetStateOutlet(outlet_elevation_obj)
            /\ pickle_file' = Snapshot(model_time, iteration, np_random,
                                       outlet_elevation_obj')
            /\ state' = "CHECKPOINTED"
            /\ pc' = "none"
            /\ UNCHANGED error
    /\ UNCHANGED hvars
    /\ UNCHANGED <<cfg, model_time, iteration, output_writers, time_now,
                   next_run_pause, rf, np_random, outputs, steps, rf_calls,
                   finalize_calls, fired, registered, remove_calls, loaded>>
    /\ UNCHANGED wvars
    /\ UNCHANGED svars
    /\ UNCHANGED evars
    /\ UNCHANGED rvars
    /\ UNCHANGED yvars

\* ------------------------------------------------------------------------
\* check_slurm_walltime
\* ------------------------------------------------------------------------
\* What squeue reports as the time left of the job: a duration
\* [days-][hours:]minutes:seconds (-1: the segment is not printed), the word
\* UNLIMITED of a job without a limit, or nothing on stdout.
SchedulerReplies ==
    {r \in [kind : {"duration"}, days : {-1, 1, 2}, hours : {-1, 2},
            minutes : {3}, seconds : {4}] :
        r.days # -1 => r.hours # -1}
    \cup {[kind |-> "unlimited"], [kind |-> "empty"]}

\* The process environment of a call: SLURM_JOB_ID is set or not, the squeue
\* executable is found or not, and stdout of the child is read as str
\* (Python 2) or as bytes (Python 3).
Environments ==
    [job_id : BOOLEAN, squeue : {"found", "missing"}, output : {"str", "bytes"}]

\* The arguments of a call: the defaults, a fixed cutoff, a dynamic one;
\* mean_time_diffs is the mean of the differences of self._compute_time, in
\* minutes.
CheckArguments ==
    {[wall_threshold |-> 0, dynamic_cut_off_time |-> FALSE, cut_off_time |-> 0,
      mean_time_diffs |-> 45],
     [wall_threshold |-> 0, dynamic_cut_off_time |-> FALSE, cut_off_time |-> 200,
      mean_time_diffs |-> 45],
     [wall_threshold |-> 30, dynamic_cut_off_time |-> TRUE, cut_off_time |-> 0,
      mean_time_diffs |-> 45]}

\* the characters of the value squeue prints for %L
TimeLeft(r) ==
    CASE r.kind = "empty" -> <<>>
      [] r.kind = "unlimited" -> <<"U", "N", "L", "I", "M", "I", "T", "E", "D">>
      [] r.kind = "duration" ->
            IF r.days # -1
            THEN Str(r.days) \o <<"-">> \o Zfill(Str(r.hours), 2) \o <<":">>
                 \o Zfill(Str(r.minutes), 2) \o <<":">> \o Zfill(Str(r.seconds), 2)
            ELSE IF r.hours # -1
            THEN Str(r.hours) \o <<":">> \o Zfill(Str(r.minutes), 2) \o <<":">>
                 \o Zfill(Str(r.seconds), 2)
            ELSE Str(r.minutes) \o <<":">> \o Zfill(Str(r.seconds), 2)

\* stdout of squeue --format=%.10L after strip(): the header line, then the
\* value right justified in a field of ten characters; nothing at all when
\* squeue fails
FieldWidth == 10
Stdout(r) ==
    IF r.kind = "empty" THEN <<>>
    ELSE <<"T", "I", "M", "E", "_", "L", "E", "F", "T", "\n">>
         \o [i \in 1..Max2(FieldWidth - Len(TimeLeft(r)), 0) |-> " "]
         \o TimeLeft(r)

\* str.split(sep)
RECURSIVE Split(_, _)
Split(s, sep) ==
    IF \A i \in 1..Len(s) : s[i] # sep THEN <<s>>
    ELSE LET k == CHOOSE i \in 1..Len(s) :
                     s[i] = sep /\ \A j \in 1..(i - 1) : s[j] # sep
         IN  <<SubSeq(s, 1, k - 1)>> \o Split(SubSeq(s, k + 1, Len(s)), sep)

\* list[-n]
FromEnd(l, n) ==
    IF Len(l) >= n THEN [error |-> "none", value |-> l[Len(l) - n + 1]]
    ELSE [error |-> "IndexError", value |-> <<>>]

IsDigit(c) == \E d \in 0..9 : Digit(d) = c
DigitOf(c) == CHOOSE d \in 0..9 : Digit(d) = c

RECURSIVE Digits(_, _)
Digits(s, n) == IF s = <<>> THEN n ELSE Digits(Tail(s), 10 * n + DigitOf(Head(s)))

\* int(s)
PyInt(s) ==
    IF s # <<>> /\ \A i \in 1..Len(s) : IsDigit(s[i])
    THEN [error |-> "none", value |-> Digits(s, 0)]
    ELSE [error |-> "ValueError", value |-> 0]

\* try: int(time_left.split(':')[-n])  except IndexError: 0
Segment(time_left, n) ==
    LET seg == FromEnd(Split(time_left, ":"), n)
    IN  IF seg.error = "IndexError" THEN [error |-> "none", value |-> 0]
        ELSE PyInt(seg.value)

\* days_left is a str whenever time_left holds a '-'
DaysLeftIsStr(time_left) == Len(Split(time_left, "-")) # 1

\* the lines from time_left = ... to remaining_time = ...: the minutes left,
\* or the exception
RemainingTime(output) ==
    LET time_left == FromEnd(Split(output, " "), 1).value
        minutes_left == Segment(time_left, 2)
        hours_left == Segment(time_left, 3)
    IN  IF minutes_left.error # "none"
        THEN [error |-> Err(minutes_left.error, "", "int(minutes)"), value |-> 0]
        ELSE IF hours_left.error # "none"
        THEN [error |-> Err(hours_left.error, "", "int(hours)"), value |-> 0]
        ELSE IF DaysLeftIsStr(time_left)
        THEN [error |-> Err("TypeError", "", "str + int"), value |-> 0]
        ELSE [error |-> NoError,
              value |-> 0 * 60 * 60 + 60 * hours_left.value + minutes_left.value]

\* cut_off_time as the call uses it
CutOffTime(a) ==
    IF a.dynamic_cut_off_time THEN a.mean_time_diffs + a.wall_threshold
    ELSE a.cut_off_time

\* remaining_time < cut_off_time
TooLittle(remaining_time, cut_off_time) == remaining_time < cut_off_time

\* except KeyError: pass
Swallowed_None(e) == FALSE
Swallowed(e) == e = "KeyError"

\* What the call does up to pickle_self: outcome "returned", "raised", or
\* "pickle" when pickle_self() and sys.exit() come next; queried: squeue was
\* started, or the attempt to start it was made.
WalltimeCheck(c, env, a, r) ==
    LET rec == [called |-> TRUE, job_id |-> env.job_id, squeue |-> env.squeue,
                output |-> env.output, reply |-> r,
                cut_off_time |-> CutOffTime(a), queried |-> FALSE,
                remaining_time |-> -1, error |-> NoError,
                outcome |-> "returned"]
        rt == RemainingTime(Stdout(r))
    IN  IF ~c.opt_walltime THEN rec
        ELSE IF ~env.job_id
        THEN IF Swallowed("KeyError") THEN rec
             ELSE [rec EXCEPT !.error = Err("KeyError", "SLURM_JOB_ID", "os.environ"),
                              !.outcome = "raised"]
        ELSE IF env.squeue = "missing"
        THEN [rec EXCEPT !.queried = TRUE,
                         !.error = Err("OSError", "squeue", "subprocess.Popen"),
                         !.outcome = "raised"]
        ELSE IF env.output = "bytes"
        THEN [rec EXCEPT !.queried = TRUE,
                         !.error = Err("TypeError", "", "output.strip().split"),
                         !.outcome = "raised"]
        ELSE IF rt.error # NoError
        THEN [rec EXCEPT !.queried = TRUE, !.error = rt.error,
                         !.outcome = "raised"]
        ELSE IF c.opt_save /\ TooLittle(rt.value, CutOffTime(a))
        THEN [rec EXCEPT !.queried = TRUE, !.remaining_time = rt.value,
                         !.outcome = "pickle"]
        ELSE [rec EXCEPT !.queried = TRUE, !.remaining_time = rt.value]

\* check_slurm_walltime(wall_threshold, dynamic_cut_off_time, cut_off_time),
\* called by the client between two steps
CheckSlurmWalltime ==
    /\ state = "RUNNING"
    /\ pc \in {"run_for", "write"}
    /\ walltime_calls < MaxChecks
    /\ walltime_calls' = walltime_calls + 1
    /\ UNCHANGED pickle_calls
    /\ \E env \in Environments, a \in CheckArguments, r \in SchedulerReplies :
          LET w == WalltimeCheck(cfg, env, a, r)
          IN  /\ compute_time' =
                    IF cfg.opt_walltime /\ a.dynamic_cut_off_time
                    THEN compute_time + 1 ELSE compute_time
              /\ CASE w.outcome = "returned" ->
                        /\ last_check' = w
                        /\ UNCHANGED <<state, pc, error, pickle_file,
                                       outlet_elevation_obj, dict_random_state>>
                   [] w.outcome = "raised" ->
                        /\ last_check' = w
                        /\ Raise(w.error)
                        /\ UNCHANGED <<pickle_file, outlet_elevation_obj,
                                       dict_random_state>>
                   [] w.outcome = "pickle" ->
                        /\ dict_random_state' = TRUE
                        /\ IF GetStateError(outlet_elevation_obj) # NoError
                           THEN /\ pickle_file' = EmptyFile
                                /\ Raise(GetStateError(outlet_elevation_obj))
                                /\ last_check' =
                                      [w EXCEPT !.outcome = "raised",
                                                !.error = GetStateError(outlet_elevation_obj)]
                                /\ UNCHANGED outlet_elevation_obj
                           ELSE /\ outlet_elevation_obj' =
                                      GetStateOutlet(outlet_elevation_obj)
                                /\ pickle_file' =
                                      Snapshot(model_time, iteration, np_random,
                                               outlet_elevation_obj')
                                /\ state' = "CHECKPOINTED"
                                /\ pc' = "none"
                                /\ last_check' = [w EXCEPT !.outcome = "exited"]
                                /\ UNCHANGED error
    /\ UNCHANGED hvars
    /\ UNCHANGED svars
    /\ UNCHANGED <<cfg, model_time, iteration, output_writers, time_now,
                   next_run_pause, rf, np_random, outputs, steps, rf_calls,
                   finalize_calls, fired, registered, remove_calls, loaded>>
    /\ UNCHANGED evars
    /\ UNCHANGED rvars
    /\ UNCHANGED yvars


\* pickle_self(), called by the client between two steps; control returns
\* to the caller unless __getstate__ raises
ClientPickleSelf ==
    /\ state = "RUNNING"
    /\ pc \in {"run_for", "write"}
    /\ pickle_calls < MaxPickles
    /\ pickle_calls' = pickle_calls + 1
    /\ dict_random_state' = TRUE
    /\ IF GetStateError(outlet_elevation_obj) # NoError
       THEN /\ pickle_file' = EmptyFile
            /\ Raise(GetStateError(outlet_elevation_obj))
            /\ UNCHANGED outlet_elevation_obj
       ELSE /\ outlet_elevation_obj' = GetStateOutlet(outlet_elevation_obj)
            /\ pickle_file' = Snapshot(model_time, iteration, np_random,
                                       outlet_elevation_obj')
            /\ UNCHANGED <<state, pc, error>>
    /\ UNCHANGED hvars
    /\ UNCHANGED svars
    /\ UNCHANGED <<compute_time, walltime_calls, last_check>>
    /\ UNCHANGED <<cfg, model_time, iteration, output_writers, time_now,
                   next_run_pause, rf, np_random, outputs, steps, rf_calls,
                   finalize_calls, fired, registered, remove_calls, loaded>>
    /\ UNCHANGED evars
    /\ UNCHANGED rvars
    /\ UNCHANGED yvars

\* the job is submitted again with the same arguments: a new process, the
\* files of the old one
Restart ==
    /\ state \in {"ABORTED", "CHECKPOINTED"}
    /\ state' = "UNINITIALIZED"
    /\ pc' = "none"
    /\ error' = NoError
    /\ model_time' = FZero
    /\ iteration' = -1
    /\ output_writers' = NoWriters
    /\ outlet_elevation_obj' = "absent"
    /\ dict_random_state' = FALSE
    /\ time_now' = FZero
    /\ next_run_pause' = FZero
    /\ rf' = NoRunFor
    /\ np_random' = 0
    /\ outputs' = <<>>
    /\ steps' = 0
    /\ rf_calls' = 0
    /\ finalize_calls' = 0
    /\ fired' = [w \in WriterNames |-> 0]
    /\ registered' = [w \in WriterNames |-> 0]
    /\ remove_calls' = 0
    /\ loaded' = NoFile
    /\ boundary_handler' = <<>>
    /\ self_params' = <<>>
    /\ setup_calls' = 0
    /\ last_setup' = NoSetup
    /\ ubc_calls' = 0
    /\ ubc_dt' = FZero
    /\ compute_time' = 0
    /\ walltime_calls' = 0
    /\ last_check' = NoCheck
    /\ pickle_calls' = 0
    /\ rain_record' = NoRainRecord
    /\ draws' = <<>>
    /\ reference' = <<>>
    /\ resets' = 0
    /\ get_calls' = 0
    /\ last_get' = NoGet
    /\ rain_rate' = FZero
    /\ exp_value' = FZero
    /\ runoff' = FZero
    /\ discharge' = FZero
    /\ runoff_calls' = 0
    /\ K_sed' = FZero
    /\ K_br' = FZero
    /\ eroder' = NoEroder
    /\ at_node_finite' = TRUE
    /\ UNCHANGED <<cfg, pickle_file>>

\* ------------------------------------------------------------------------
\* Calls of the boundary handler methods by the client
\* ------------------------------------------------------------------------
\* setup_boundary_handler(handler) on a constructed model
SetupHandler ==
    /\ state = "READY"
    /\ setup_calls < MaxSetups
    /\ \E handler \in HandlerRequests :
          LET r == SetupBoundaryHandler(cfg, boundary_handler, self_params,
                                        handler)
          IN  /\ boundary_handler' = r.boundary_handler
              /\ self_params' = r.self_params
              /\ last_setup' = SetupRecord(boundary_handler, handler, r)
    /\ setup_calls' = setup_calls + 1
    /\ UNCHANGED <<cfg, state, pc, error, model_time, iteration,
                   output_writers, outlet_elevation_obj, dict_random_state,
                   time_now, next_run_pause, rf, np_random, pickle_file,
                   outputs, steps, rf_calls, finalize_calls, fired, registered,
                   remove_calls, loaded, ubc_calls, ubc_dt>>
    /\ UNCHANGED wvars
    /\ UNCHANGED svars
    /\ UNCHANGED evars
    /\ UNCHANGED rvars
    /\ UNCHANGED yvars

\* update_boundary_conditions(dt)
UpdateBoundaryConditions ==
    /\ state = "READY"
    /\ ubc_calls < MaxUpdates
    /\ \E dt \in {F0_025, F0_5} :
          /\ boundary_handler' = RunHandlers(boundary_handler, dt)
          /\ ubc_dt' = dt
    /\ ubc_calls' = ubc_calls + 1
    /\ UNCHANGED <<cfg, state, pc, error, model_time, iteration,
                   output_writers, outlet_elevation_obj, dict_random_state,
                   time_now, next_run_pause, rf, np_random, pickle_file,
                   outputs, steps, rf_calls, finalize_calls, fired, registered,
                   remove_calls, loaded, self_params, setup_calls, last_setup>>
    /\ UNCHANGED wvars
    /\ UNCHANGED svars
    /\ UNCHANGED evars
    /\ UNCHANGED rvars
    /\ UNCHANGED yvars

InitHandlers == cfg \in HandlerConfigs /\ InitialState

NextHandlers ==
    \/ Construct
    \/ SetupHandler
    \/ UpdateBoundaryConditions

SpecHandlers == InitHandlers /\ [][NextHandlers]_vars

\* Arguments explored for the wall-time check: a run of three steps, the two
\* options and the outlet object vary.
WalltimeConfigs ==
    [input_file : {FALSE},
     params : {TRUE},
     p : {[k \in {"dt", "output_interval", "run_duration"} |->
            IF k = "dt" THEN Num(F0_2) ELSE Num(F0_5)]},
     save_first_timestep : {FALSE},
     load_from_pickle : {FALSE},
     output_filename : {TRUE},
     OutputWriters : {<<>>},
     outlet : OutletKinds,
     BoundaryHandlers : {<<>>},
     p_BoundaryHandlers : {[given |-> FALSE, value |-> <<>>]},
     own : {{}},
     model : {"ErosionModel"},
     opt_stochastic_duration : {FALSE},
     random_seed : {0},
     daily_rainfall_intermittency_factor : {F0_1},
     record_rain : {"absent"},
     opt_walltime : BOOLEAN,
     opt_save : BOOLEAN,
     model_params : {NoModelParams}]

InitWalltime == cfg \in WalltimeConfigs /\ InitialState

NextWalltime ==
    \/ Construct
    \/ RunBegin
    \/ RunLoop
    \/ RunForStep
    \/ RunWrite
    \/ Finalize
    \/ RemoveSavedModel
    \/ CheckSlurmWalltime

SpecWalltime == InitWalltime /\ [][NextWalltime]_vars

\* The same runs, with the client writing checkpoints by pickle_self().
NextPickle ==
    \/ Construct
    \/ RunBegin
    \/ RunLoop
    \/ RunForStep
    \/ RunWrite
    \/ Finalize
    \/ RemoveSavedModel
    \/ ClientPickleSelf

SpecPickle == InitWalltime /\ [][NextPickle]_vars

\* ------------------------------------------------------------------------
\* The storm sequence of the stochastic models (BasicSt)
\* ------------------------------------------------------------------------
\* The pseudo-random stream.  A congruential generator of full period stands
\* for numpy's: seeding sets the state, a draw moves the state and returns
\* the new one.
Seeded(seed) == seed % 64
NextRandom(s) == (5 * s + 3) % 64

\* reset_random_seed(): the stream is seeded again with the configured seed
ResetSeed_Keep(c, s) == s
ResetSeed(c, s) == Seeded(c.random_seed)

\* generate_from_stretched_exponential(scale, shape): the intensity of a wet
\* interval, a positive level read from one variate r
StretchedExponential(r) == 1 + (r % 7)

\* yield_storm_interstorm_duration_intensity(): the n-th pair after n - 1
\* others, storms and interstorms in turn.  A storm takes two variates (its
\* duration, its depth) and has intensity depth / duration; an interstorm
\* takes one and has intensity zero.
StormPair(s, n) ==
    LET r1 == NextRandom(s)
        r2 == NextRandom(r1)
    IN  IF n % 2 = 1
        THEN [state |-> r2,
              pair |-> [duration |-> 1 + (r1 % 3),
                        intensity |-> [depth |-> 1 + (r2 % 3),
                                       duration |-> 1 + (r1 % 3)]]]
        ELSE [state |-> r1,
              pair |-> [duration |-> 1 + (r1 % 3),
                        intensity |-> [depth |-> 0, duration |-> 1 + (r1 % 3)]]]

daily_rainfall_intermittency_factor == cfg.daily_rainfall_intermittency_factor

\* fixed-duration mode: the wet part of a step
WetDuration_Whole(step) == step
WetDuration(step) == FMul(step, daily_rainfall_intermittency_factor)

\* fixed-duration mode: the dry part of a step
DryDuration(step) == FMul(step, FSub(F1, daily_rainfall_intermittency_factor))

\* handle_water_erosion(step, flooded) in fixed-duration mode: one intensity
\* is drawn, the step is split in a wet and a dry interval, both are recorded
HandleWaterErosion(t, step, rate) ==
    <<[event_start_time |-> t, event_duration |-> WetDuration(step),
       rainfall_rate |-> rate, runoff_rate |-> rate],
      [event_start_time |-> FAdd(t, WetDuration(step)),
       event_duration |-> DryDuration(step),
       rainfall_rate |-> 0, runoff_rate |-> 0]>>

\* A recording that leaves the runoff rate out.
RecordRainEvent_NoRunoff(rr, ev) ==
    [rr EXCEPT !.kind = "dict",
               !.event_start_time = Append(@, ev.event_start_time),
               !.event_duration = Append(@, ev.event_duration),
               !.rainfall_rate = Append(@, ev.rainfall_rate)]

\* record_rain_event: one entry more in each of the four lists
RecordRainEvent(rr, ev) ==
    [kind |-> "dict",
     event_start_time |-> Append(rr.event_start_time, ev.event_start_time),
     event_duration |-> Append(rr.event_duration, ev.event_duration),
     rainfall_rate |-> Append(rr.rainfall_rate, ev.rainfall_rate),
     runoff_rate |-> Append(rr.runoff_rate, ev.runoff_rate)]

\* the events of a step, recorded in order when record_rain is set
RECURSIVE RecordEvents(_, _, _)
RecordEvents(c, rr, evs) ==
    IF ~RecordRain(c) \/ evs = <<>> THEN rr
    ELSE RecordEvents(c, RecordRainEvent(rr, Head(evs)), Tail(evs))

\* model.reset_random_seed()
ResetRandomSeed ==
    /\ cfg.model = "BasicSt"
    /\ state = "READY"
    /\ ~rf.keep_running
    /\ resets < MaxResets
    /\ resets' = resets + 1
    /\ np_random' = ResetSeed(cfg, np_random)
    /\ reference' = IF resets > 0 /\ Len(draws) > Len(reference)
                    THEN draws ELSE reference
    /\ draws' = <<>>
    /\ UNCHANGED <<cfg, state, pc, error, model_time, iteration,
                   output_writers, outlet_elevation_obj, dict_random_state,
                   time_now, next_run_pause, rf, pickle_file, outputs, steps,
                   rf_calls, finalize_calls, fired, registered, remove_calls,
                   loaded, rain_record>>
    /\ UNCHANGED hvars
    /\ UNCHANGED wvars
    /\ UNCHANGED evars
    /\ UNCHANGED rvars
    /\ UNCHANGED yvars

\* the client takes the next pair of
\* model.rain_generator.yield_storm_interstorm_duration_intensity()
YieldStorm ==
    /\ cfg.model = "BasicSt"
    /\ cfg.opt_stochastic_duration
    /\ state = "READY"
    /\ Len(draws) < MaxDraws
    /\ LET y == StormPair(np_random, Len(draws) + 1)
       IN  /\ np_random' = y.state
           /\ draws' = Append(draws, y.pair)
    /\ UNCHANGED <<cfg, state, pc, error, model_time, iteration,
                   output_writers, outlet_elevation_obj, dict_random_state,
                   time_now, next_run_pause, rf, pickle_file, outputs, steps,
                   rf_calls, finalize_calls, fired, registered, remove_calls,
                   loaded, rain_record, reference, resets>>
    /\ UNCHANGED hvars
    /\ UNCHANGED wvars
    /\ UNCHANGED evars
    /\ UNCHANGED rvars
    /\ UNCHANGED yvars

\* the client calls
\* model.rain_generator.generate_from_stretched_exponential(scale, shape)
GenerateFromStretchedExponential ==
    /\ cfg.model = "BasicSt"
    /\ ~cfg.opt_stochastic_duration
    /\ state = "READY"
    /\ Len(draws) < MaxDraws
    /\ np_random' = NextRandom(np_random)
    /\ draws' = Append(draws, StretchedExponential(np_random'))
    /\ UNCHANGED <<cfg, state, pc, error, model_time, iteration,
                   output_writers, outlet_elevation_obj, dict_random_state,
                   time_now, next_run_pause, rf, pickle_file, outputs, steps,
                   rf_calls, finalize_calls, fired, registered, remove_calls,
                   loaded, rain_record, reference, resets>>
    /\ UNCHANGED hvars
    /\ UNCHANGED wvars
    /\ UNCHANGED evars
    /\ UNCHANGED rvars
    /\ UNCHANGED yvars

\* BasicSt.run_one_step(dt) in fixed-duration mode, dt the configured step:
\* handle_water_erosion, then finalize_run_one_step
RunOneStep ==
    /\ cfg.model = "BasicSt"
    /\ ~cfg.opt_stochastic_duration
    /\ state = "READY"
    /\ Len(draws) < MaxDraws
    /\ steps < MaxRainSteps
    \* the step is not subdivided
    /\ cfg.model_params["number_of_sub_time_steps"] \in {Missing, Num(F1)}
    /\ steps' = steps + 1
    /\ np_random' = NextRandom(np_random)
    /\ draws' = Append(draws, StretchedExponential(np_random'))
    /\ rain_record' =
          RecordEvents(cfg, rain_record,
                       HandleWaterErosion(model_time, cfg.p["dt"].val,
                                          StretchedExponential(np_random')))
    /\ model_time' = FinalizeRunOneStep(model_time, cfg.p["dt"].val)
    /\ boundary_handler' = RunHandlers(boundary_handler, cfg.p["dt"].val)
    /\ UNCHANGED <<cfg, state, pc, error, iteration, output_writers,
                   outlet_elevation_obj, dict_random_state, time_now,
                   next_run_pause, rf, pickle_file, outputs, rf_calls,
                   finalize_calls, fired, registered, remove_calls, loaded,
                   reference, resets>>
    /\ UNCHANGED <<self_params, setup_calls, last_setup, ubc_calls, ubc_dt>>
    /\ UNCHANGED wvars
    /\ UNCHANGED evars
    /\ UNCHANGED rvars
    /\ UNCHANGED yvars

\* Arguments explored for the storm sequence: the two modes, two seeds, two
\* steps and two intermittency factors.
StormConfigs ==
    [input_file : {FALSE},
     params : {TRUE},
     p : {[k \in {"dt", "output_interval", "run_duration"} |->
            IF k = "dt" THEN Num(x) ELSE Num(F10)] : x \in {F10, F3}},
     save_first_timestep : {FALSE},
     load_from_pickle : {FALSE},
     output_filename : {TRUE},
     OutputWriters : {<<>>},
     outlet : {"None"},
     BoundaryHandlers : {<<>>},
     p_BoundaryHandlers : {[given |-> FALSE, value |-> <<>>]},
     own : {{}},
     model : {"BasicSt"},
     opt_stochastic_duration : BOOLEAN,
     random_seed : {0, 1234},
     daily_rainfall_intermittency_factor : {F0_1, F0_2},
     record_rain : {"True"},
     opt_walltime : {FALSE},
     opt_save : {FALSE},
     model_params : {NoModelParams}]

InitStorm == cfg \in StormConfigs /\ InitialState

NextStorm ==
    \/ Construct
    \/ ResetRandomSeed
    \/ YieldStorm
    \/ GenerateFromStretchedExponential
    \/ RunOneStep

SpecStorm == InitStorm /\ [][NextStorm]_vars

\* ------------------------------------------------------------------------
\* get_parameter_from_exponent
\* ------------------------------------------------------------------------
\* The names a derived model asks for.
ParameterNames == {"water_erodability", "regolith_transport_parameter"}

\* A call of get_parameter_from_exponent on a constructed engine. An
\* exception goes to the caller and leaves the engine as it was.
GetParameter ==
    /\ state = "READY"
    /\ get_calls < MaxGets
    /\ \E param_name \in ParameterNames, raise_error \in BOOLEAN :
         LET r == GetParameterFromExponent(cfg.model_params, param_name, raise_error) IN
         last_get' = [called |-> TRUE, param_name |-> param_name,
                      raise_error |-> raise_error, error |-> r.error,
                      value |-> r.value]
    /\ get_calls' = get_calls + 1
    /\ UNCHANGED hvars /\ UNCHANGED wvars /\ UNCHANGED svars /\ UNCHANGED rvars
    /\ UNCHANGED yvars
    /\ UNCHANGED <<cfg, state, pc, error, model_time, iteration, output_writers,
                   outlet_elevation_obj, dict_random_state, time_now,
                   next_run_pause, rf, np_random, pickle_file, outputs, steps,
                   rf_calls, finalize_calls, fired, registered, remove_calls,
                   loaded>>

\* The dictionaries explored: each form absent, None, not a number, or a
\* number.
ExponentValues == {Missing, NoneVal, BadStr, Num(FromInt(-1)), Num(FZero), Num(FromInt(2))}
AbsoluteValues == {Missing, NoneVal, BadStr, Num(F0_5)}

ExponentConfigs ==
    {[c EXCEPT !.model_params = [NoModelParams EXCEPT !["water_erodability"] = a,
                                                      !["water_erodability_exp"] = e]] :
        c \in {d \in HandlerConfigs : d.BoundaryHandlers = <<>> /\ d.own = {}
                                        /\ ~d.p_BoundaryHandlers.given},
        a \in AbsoluteValues, e \in ExponentValues}

InitExponent == cfg \in ExponentConfigs /\ InitialState

NextExponent ==
    \/ Construct
    \/ GetParameter

SpecExponent == InitExponent /\ [][NextExponent]_vars

\* ------------------------------------------------------------------------
\* BasicSt.calc_runoff_and_discharge
\* ------------------------------------------------------------------------
\* 2^k as a float
Pow2F(k) == Float(FALSE, Pow2(Scale + k))

\* 1.5 * 2^k as a float
OneAndHalf(k) == FAdd(Pow2F(k), Pow2F(k - 1))

\* x / y for a divisor that is a power of two: the quotient is exact
FDiv(x, y) ==
    LET j == BitLen(y.mag) - 1 - Scale
    IN  Float(x.neg # y.neg,
              IF j >= 0 THEN MagShr(x.mag, j) ELSE MagShift(x.mag, -j))

\* math.exp(-2^j), the double nearest to it, for the exponents explored
ExpOfPow2 ==
    [j \in -4..2 |->
       CASE j = -4 -> FromHex(<<1,14,0,15,10,11,15,11,12,7,0,2,10,4>>, -1)    \* exp(-0.0625) == 0x1.e0fabfbc702a4p-1
         [] j = -3 -> FromHex(<<1,12,3,13,6,10,2,4,14,13,8,2,2,2>>, -1)    \* exp(-0.125) == 0x1.c3d6a24ed8222p-1
         [] j = -2 -> FromHex(<<1,8,14,11,14,15,9,14,10,12,8,2,0,11>>, -1)    \* exp(-0.25) == 0x1.8ebef9eac820bp-1
         [] j = -1 -> FromHex(<<1,3,6,8,11,2,15,12,6,15,9,6,0,10>>, -1)    \* exp(-0.5) == 0x1.368b2fc6f960ap-1
         [] j = 0 -> FromHex(<<1,7,8,11,5,6,3,6,2,12,14,15,3,8>>, -2)    \* exp(-1.0) == 0x1.78b56362cef38p-2
         [] j = 1 -> FromHex(<<1,1,5,2,10,10,10,3,11,15,8,1,12,12>>, -3)    \* exp(-2.0) == 0x1.152aaa3bf81ccp-3
         [] j = 2 -> FromHex(<<1,2,12,1,5,5,11,8,2,1,3,12,15,4>>, -6)    \* exp(-4.0) == 0x1.2c155b8213cf4p-6
    ]

\* math.exp(x) for the arguments explored. Within 2^-54 of zero it is 1,
\* and 1 - 2^-53 a little further away.
Exp(x) ==
    CASE x = FNeg(OneAndHalf(-56)) -> F1
      [] x = FNeg(OneAndHalf(-55)) -> F1
      [] x = FNeg(OneAndHalf(-54)) -> FSub(F1, Pow2F(-53))
      [] x = FNeg(OneAndHalf(-53)) -> FSub(F1, Pow2F(-53))
      [] OTHER -> ExpOfPow2[CHOOSE j \in -4..2 : x = FNeg(Pow2F(j))]

\* the unit in the last place of a positive float
Ulp(x) == Pow2F(BitLen(x.mag) - 1 - Scale - (Precision - 1))

\* np.exp(x) for x < 0: numpy does not promise the nearest double, so the
\* neighbours of it are outcomes too; none of them is above 1.
ExpOutcomes(x) ==
    {FSub(Exp(x), Ulp(Exp(x))), Exp(x), FMin(F1, FAdd(Exp(x), Ulp(Exp(x))))}

\* self.infilt, for a unit length factor
infilt == cfg.model_params["infiltration_capacity"].val

\* self.area at the node followed
area == FromInt(4)

\* The same computation without the test for a negative runoff.
Runoff_Unclamped(P, I, e) ==
    IF FLT(FZero, P) /\ FLT(FZero, I)
    THEN FSub(P, FMul(I, FSub(F1, e)))
    ELSE P

\* runoff of calc_runoff_and_discharge for self.rain_rate = P,
\* self.infilt = I, e being what np.exp(-P / I) returned
Runoff(P, I, e) ==
    IF FLT(FZero, P) /\ FLT(FZero, I)
    THEN LET r == FSub(P, FMul(I, FSub(F1, e)))
         IN  IF FLT(r, FZero) THEN FZero ELSE r
    ELSE P

\* The rainfall rates and the infiltration capacities explored.
RainRates == {FZero, OneAndHalf(-54), Pow2F(-2), F0_5, F1, FromInt(2)}
InfiltrationCapacities == {FromInt(-1), FZero, F0_5, F1, FromInt(2), FromInt(4)}

\* calc_runoff_and_discharge() with the rain rate P
CalcRunoffAndDischarge ==
    /\ state = "READY"
    /\ cfg.model = "BasicSt"
    /\ runoff_calls < MaxRunoffs
    /\ \E P \in RainRates :
         \E e \in IF FLT(FZero, P) /\ FLT(FZero, infilt)
                   THEN ExpOutcomes(FNeg(FDiv(P, infilt))) ELSE {FZero} :
            /\ rain_rate' = P
            /\ exp_value' = e
            /\ runoff' = Runoff(P, infilt, e)
            /\ discharge' = FMul(runoff', area)
    /\ runoff_calls' = runoff_calls + 1
    /\ UNCHANGED hvars /\ UNCHANGED wvars /\ UNCHANGED svars /\ UNCHANGED evars
    /\ UNCHANGED yvars
    /\ UNCHANGED <<cfg, state, pc, error, model_time, iteration, output_writers,
                   outlet_elevation_obj, dict_random_state, time_now,
                   next_run_pause, rf, np_random, pickle_file, outputs, steps,
                   rf_calls, finalize_calls, fired, registered, remove_calls,
                   loaded>>

RunoffConfigs ==
    {[c EXCEPT !.model_params =
         [NoModelParams EXCEPT !["infiltration_capacity"] = Num(i)]] :
        c \in {d \in StormConfigs : d.random_seed = 0 /\ ~d.opt_stochastic_duration
                                      /\ d.daily_rainfall_intermittency_factor = F0_1
                                      /\ d.p["dt"] = Num(F10)},
        i \in InfiltrationCapacities}

InitRunoff == cfg \in RunoffConfigs /\ InitialState

NextRunoff ==
    \/ Construct
    \/ CalcRunoffAndDischarge

SpecRunoff == InitRunoff /\ [][NextRunoff]_vars

\* ------------------------------------------------------------------------
\* BasicHySa.run_one_step and check_stability
\* ------------------------------------------------------------------------
\* 'PrecipChanger' in self.boundary_handler
HasPrecipChanger(bh) == \E i \in 1..Len(bh) : bh[i].name = "PrecipChanger"

\* The adjustment factor of a PrecipChanger that has been run n times: it
\* changes from step to step and is not always 1.
FactorAfter(n) ==
    CASE n % 3 = 0 -> F0_5
      [] n % 3 = 1 -> FromInt(2)
      [] OTHER     -> F1

\* self.boundary_handler['PrecipChanger'].get_erodability_adjustment_factor()
GetErodabilityAdjustmentFactor(bh) ==
    LET i == CHOOSE j \in 1..Len(bh) : bh[j].name = "PrecipChanger"
    IN  FactorAfter(Len(bh[i].dts))

\* An update that multiplies what the eroder holds.
Erodability_Compounded(base, current, erode_factor) == FMul(current, erode_factor)

\* self.eroder.K_sed = self.K_sed * erode_factor (and so for K_br): base is
\* the model's value, current the eroder's
Erodability(base, current, erode_factor) == FMul(base, erode_factor)

\* A check that lets every state pass.
CheckStability_Silent(finite) == NoError

\* check_stability(): SystemExit when a field holds a NaN or an Inf
CheckStability(finite) ==
    IF finite THEN NoError
    ELSE Err("SystemExit", "", "terrainbento ModelHySa: Model became unstable")

\* One pass of run_for's loop with BasicHySa.run_one_step: the erodabilities
\* of the eroder, the components (which leave the fields finite or not),
\* finalize__run_one_step, check_stability.
HySaRunForStep ==
    /\ state = "RUNNING"
    /\ pc = "run_for"
    /\ cfg.model = "BasicHySa"
    /\ steps < MaxSteps
    /\ eroder' = IF HasPrecipChanger(boundary_handler)
                 THEN LET erode_factor == GetErodabilityAdjustmentFactor(boundary_handler)
                      IN  [K_sed |-> Erodability(K_sed, eroder.K_sed, erode_factor),
                           K_br |-> Erodability(K_br, eroder.K_br, erode_factor)]
                 ELSE eroder
    /\ \E finite \in BOOLEAN : at_node_finite' = finite
    /\ rf' = RunForPass(rf)
    /\ model_time' = FinalizeRunOneStep(model_time, StepDt(rf))
    /\ boundary_handler' = RunHandlers(boundary_handler, StepDt(rf))
    /\ np_random' = np_random + 1
    /\ steps' = steps + 1
    /\ rf_calls' = rf_calls + 1
    /\ IF CheckStability(at_node_finite') # NoError
       THEN Raise(CheckStability(at_node_finite'))
       ELSE /\ pc' = IF rf'.keep_running THEN "run_for" ELSE "write"
            /\ UNCHANGED <<state, error>>
    /\ UNCHANGED <<K_sed, K_br>>
    /\ UNCHANGED <<self_params, setup_calls, last_setup, ubc_calls, ubc_dt>>
    /\ UNCHANGED <<cfg, iteration, output_writers,
                   outlet_elevation_obj, dict_random_state, time_now,
                   next_run_pause, pickle_file, outputs, finalize_calls,
                   fired, registered, remove_calls, loaded>>
    /\ UNCHANGED wvars /\ UNCHANGED svars /\ UNCHANGED evars /\ UNCHANGED rvars

\* The erodabilities explored.
Erodabilities == {F0_2, F0_5, F1}

\* BasicHySa takes no BoundaryHandlers argument: a PrecipChanger comes from
\* params['BoundaryHandlers'].
HySaConfigs ==
    {[c EXCEPT !.model = "BasicHySa",
               !.p = [k \in {"dt", "output_interval", "run_duration"} |->
                        IF k = "dt" THEN Num(F0_2)
                        ELSE IF k = "output_interval" THEN Num(F0_5)
                        ELSE Num(F1)],
               !.model_params =
                   [NoModelParams EXCEPT !["water_erodability~sediment"] = Num(ks),
                                         !["water_erodability~rock"] = Num(F0_5)]] :
        c \in {d \in HandlerConfigs : d.BoundaryHandlers = <<>>
                                        /\ d.own = {"PrecipChanger"}},
        ks \in Erodabilities}

InitHySa == cfg \in HySaConfigs /\ InitialState

NextHySa ==
    \/ Construct
    \/ RunBegin
    \/ RunLoop
    \/ HySaRunForStep
    \/ RunWrite
    \/ Finalize

SpecHySa == InitHySa /\ [][NextHySa]_vars

\* ------------------------------------------------------------------------
\* The stochastic run_for (variable-duration mode) and the rain record
\* ------------------------------------------------------------------------
\* The run spans explored.
RunSpans == {F0_5, F3, FromInt(6)}

\* A consumption that takes every interval whole.
TruncatedDuration_Whole(r, d) == d

\* the duration taken of an interval of length d: the whole of it, or what
\* is left of the run span
TruncatedDuration(r, d) ==
    IF FGE(FAdd(r.elapsed_time, d), r.runtime)
    THEN FSub(r.runtime, r.elapsed_time) ELSE d

\* model.run_for(dt, runtime) in variable-duration mode: the call
StochasticRunFor ==
    /\ cfg.model = "BasicSt"
    /\ cfg.opt_stochastic_duration
    /\ state = "READY"
    /\ rf = NoRunFor
    /\ \E T \in RunSpans :
         rf' = [dt |-> FZero, runtime |-> T, elapsed_time |-> FZero,
                keep_running |-> FLT(FZero, T), start |-> model_time]
    /\ UNCHANGED <<cfg, state, pc, error, model_time, iteration,
                   output_writers, outlet_elevation_obj, dict_random_state,
                   time_now, next_run_pause, np_random, pickle_file, outputs,
                   steps, rf_calls, finalize_calls, fired, registered,
                   remove_calls, loaded>>
    /\ UNCHANGED hvars /\ UNCHANGED wvars /\ UNCHANGED svars
    /\ UNCHANGED evars /\ UNCHANGED rvars /\ UNCHANGED yvars

\* one pass of its loop: the next pair of the generator, truncated to the
\* run span, is the duration and the rain rate of a run_one_step
StochasticStep ==
    /\ cfg.model = "BasicSt"
    /\ cfg.opt_stochastic_duration
    /\ state = "READY"
    /\ rf.keep_running
    /\ rf_calls < MaxStorms
    /\ LET y  == StormPair(np_random, rf_calls + 1)
           tr == TruncatedDuration(rf, FromInt(y.pair.duration))
       IN  /\ np_random' = y.state
           /\ draws' = Append(draws, y.pair)
           /\ rf' = [rf EXCEPT !.dt = tr,
                               !.elapsed_time = FAdd(@, tr),
                               !.keep_running = FLT(FAdd(rf.elapsed_time, tr),
                                                    rf.runtime)]
           /\ rain_record' =
                 RecordEvents(cfg, rain_record,
                              <<[event_start_time |-> model_time,
                                 event_duration |-> tr,
                                 rainfall_rate |-> y.pair.intensity,
                                 runoff_rate |-> y.pair.intensity]>>)
           /\ model_time' = FinalizeRunOneStep(model_time, tr)
           /\ boundary_handler' = RunHandlers(boundary_handler, tr)
    /\ rf_calls' = rf_calls + 1
    /\ steps' = steps + 1
    /\ UNCHANGED <<cfg, state, pc, error, iteration, output_writers,
                   outlet_elevation_obj, dict_random_state, time_now,
                   next_run_pause, pickle_file, outputs, finalize_calls,
                   fired, registered, remove_calls, loaded, reference, resets>>
    /\ UNCHANGED <<self_params, setup_calls, last_setup, ubc_calls, ubc_dt>>
    /\ UNCHANGED wvars /\ UNCHANGED evars /\ UNCHANGED rvars /\ UNCHANGED yvars

\* 1.5
F1_5 == FAdd(F1, F0_5)

\* Arguments explored for the stochastic construction and the rain record:
\* both modes, two seeds, record_rain absent, true and false, a frequency file or
\* none, the number of sub time steps absent, 1, 1.5 and 2.
RainConfigs ==
    {[c EXCEPT !.record_rain = r,
               !.model_params =
                   [NoModelParams EXCEPT !["frequency_filename"] = f,
                                         !["number_of_sub_time_steps"] = n]] :
        c \in {d \in StormConfigs : d.daily_rainfall_intermittency_factor = F0_2
                                      /\ d.p["dt"] = Num(F3)},
        r \in {"absent", "True", "False"},
        f \in {Missing, BadStr},
        n \in {Missing, Num(F1), Num(F1_5), Num(FromInt(2))}}

InitRain == cfg \in RainConfigs /\ InitialState

NextRain ==
    \/ Construct
    \/ ResetRandomSeed
    \/ RunOneStep
    \/ StochasticRunFor
    \/ StochasticStep

SpecRain == InitRain /\ [][NextRain]_vars

Next ==
    \/ Construct
    \/ RunBegin
    \/ RunLoop
    \/ RunForStep
    \/ RunWrite
    \/ Finalize
    \/ RemoveSavedModel
    \/ PickleSelf
    \/ Restart

Spec == Init /\ [][Next]_vars

\* ------------------------------------------------------------------------
\* Properties
\* ------------------------------------------------------------------------
\* states in which an engine exists
EngineStates == {"READY", "RUNNING", "CHECKPOINTED", "FINALIZED", "ABORTED"}

Positive(x) == ~x.neg /\ x.mag # <<>>

dt0 == cfg.p["dt"].val

\* n * m, exactly
RECURSIVE Times(_, _)
Times(n, m) == IF n = 0 THEN <<>> ELSE MagAdd(Times(n - 1, m), m)

\* the largest quotient told apart
CeilMax == MaxSteps + 1

\* ceil(a / b) for positive a and b, exactly (CeilMax + 1: larger than CeilMax)
CeilDiv(a, b) ==
    LET S == {n \in 0..CeilMax : ~MagLT(Times(n, b.mag), a.mag)}
    IN  IF S = {} THEN CeilMax + 1 ELSE CHOOSE n \in S : \A m \in S : n <= m

\* C1: construction yields an engine only when exactly one of input_file and
\* params is supplied; with both, or with neither, it fails with a ValueError
\* and there is no engine.
C1_ExactlyOneInput ==
    /\ state \in EngineStates => cfg.input_file # cfg.params
    /\ (state # "UNINITIALIZED" /\ cfg.input_file = cfg.params)
          => (state = "FAILED" /\ error.type = "ValueError" /\ error.key = "")

C1_Witness ==
    /\ state = "FAILED"
    /\ cfg.input_file /\ cfg.params
    /\ error = Err("ValueError", "", "both were supplied")

\* C2: a run() with positive dt, output_interval and run_duration, started at
\* model time 0, has written ceil(run_duration / output_interval) outputs when
\* it returns, one more with save_first_timestep, and model_time is
\* run_duration.
C2_OutputCount ==
    (/\ state = "FINALIZED"
     /\ Positive(dt0) /\ Positive(output_interval) /\ Positive(total_run_duration))
    => /\ Len(outputs) = CeilDiv(total_run_duration, output_interval)
                         + (IF cfg.save_first_timestep THEN 1 ELSE 0)
       /\ model_time = total_run_duration

\* C3: when run_for(dt, runtime) with positive dt and runtime returns, model
\* time has advanced by runtime and run_one_step was called ceil(runtime / dt)
\* times.
C3_RunForCalls ==
    (/\ state = "RUNNING" /\ pc = "write"
     /\ Positive(dt0) /\ Positive(rf.runtime))
    => /\ rf_calls = CeilDiv(rf.runtime, dt0)
       /\ rf.elapsed_time = rf.runtime
       /\ ~rf.start.neg /\ ~model_time.neg
       /\ model_time.mag = MagAdd(rf.start.mag, rf.runtime.mag)

\* C4: an engine constructed against a checkpoint resumes with the model
\* time, iteration and random state of the checkpoint.
C4_ResumeEqualsCheckpoint ==
    loaded.kind = "pickle"
    => /\ model_time = loaded.model_time
       /\ iteration = loaded.iteration
       /\ np_random = loaded.random_state

\* C5: with load_from_pickle and a file at pickle_name, construction restores
\* the engine from the checkpoint without validating the required keys;
\* otherwise the engine is built fresh with model time 0.
C5_LoadShortCircuits ==
    /\ loaded.kind = "pickle" => (state \in EngineStates /\ error = NoError)
    /\ (state = "READY" /\ loaded.kind = "absent") => model_time = FZero

\* the required keys that are missing or not convertible to float
Offending == {k \in {"dt", "output_interval", "run_duration"} :
                 cfg.p[k].kind # "num"}

\* the construction got past the input check and did not load a pickle
FreshConstruction ==
    /\ state # "UNINITIALIZED"
    /\ InputCheck(cfg) = NoError
    /\ loaded.kind = "absent"

\* C6: a fresh construction with a required key missing or not convertible
\* to float fails with a ValueError that names an offending key.
C6_RequiredKeyError ==
    (FreshConstruction /\ Offending # {})
    => /\ state = "FAILED"
       /\ error.type = "ValueError"
       /\ error.key \in Offending

\* C7: every engine that construction accepted has dt, output_interval and
\* run_duration strictly positive.
C7_PositiveClock ==
    state \in EngineStates
    => /\ Positive(dt0)
       /\ Positive(output_interval)
       /\ Positive(total_run_duration)

\* C8: finalize is called once, only when time_now has reached run_duration
\* and after the last output; the checkpoint file is removed only then, and
\* is gone when run() has returned.
C8_FinalizeAtEnd ==
    /\ [](/\ finalize_calls <= 1
          /\ finalize_calls = 1 => ~FLT(time_now, total_run_duration)
          /\ remove_calls > 0 => finalize_calls = 1
          /\ state = "FINALIZED" => (finalize_calls = 1 /\ ~Exists(pickle_file)))
    /\ [][/\ finalize_calls = 1 => outputs' = outputs
          /\ (Exists(pickle_file) /\ ~Exists(pickle_file'))
                => (finalize_calls = 1 /\ ~FLT(time_now, total_run_duration))]_vars

C8_Witness ==
    /\ state = "FINALIZED"
    /\ remove_calls = 1
    /\ Len(outputs) > 1

\* the number a zero-padded numeral of four digits stands for
DigitValue(c) == CHOOSE d \in 0..9 : Digit(d) = c
Decode(name) == 1000 * DigitValue(name[2]) + 100 * DigitValue(name[3])
                + 10 * DigitValue(name[4]) + DigitValue(name[5])

\* C9: in one run() the iteration counter moves by one per output, every
\* output file is named output_filename + the four-digit iteration + '.nc',
\* and no two outputs have the same name.
C9_DistinctFilenames ==
    state \in {"RUNNING", "FINALIZED"}
    => LET first == IF cfg.save_first_timestep THEN 0 ELSE 1
       IN  /\ iteration = first + Len(outputs)
           /\ \A i \in 1..Len(outputs) :
                 /\ Len(outputs[i]) = 6
                 /\ outputs[i][1] = "output_filename"
                 /\ outputs[i][6] = ".nc"
                 /\ Decode(outputs[i]) = first + i - 1
           /\ \A i, j \in 1..Len(outputs) : i # j => outputs[i] # outputs[j]

C9_Witness ==
    /\ state = "FINALIZED"
    /\ cfg.save_first_timestep
    /\ Len(outputs) = 4
    /\ outputs[4] = <<"output_filename", "0", "0", "0", "3", ".nc">>

\* C10: every write_output fires every registered writer once.
C10_WritersFired ==
    \A w \in WriterNames : registered[w] > 0 => fired[w] = Len(outputs)

\* C11: registration instantiates each class writer once and stores it under
\* its name; a function writer is not called at registration and is stored
\* in the list of functions.
C11_WriterRegistration ==
    (state \in EngineStates /\ loaded.kind = "absent")
    => \A i \in 1..Len(cfg.OutputWriters) :
          LET w == cfg.OutputWriters[i]
              InClass == \E k \in 1..Len(output_writers.class) :
                            output_writers.class[k] = w.name
              InFunction == \E k \in 1..Len(output_writers.function) :
                               output_writers.function[k] = w.name
          IN  IF w.kind = "class"
              THEN registered[w.name] = 1 /\ InClass /\ ~InFunction
              ELSE registered[w.name] = 0 /\ InFunction /\ ~InClass

C13_UnsupportedHandlerRejected ==
    (/\ last_setup.request.kind \in {"str", "instance"}
     /\ last_setup.request.name # ""
     /\ last_setup.request.name \notin SupportedBoundaryHandlers)
    => /\ last_setup.error.type = "ValueError"
       /\ ~last_setup.changed

\* C14: a registered handler was constructed with the dictionary stored under
\* its own name in the parameters if there is one, with all the parameters
\* otherwise; the registry holds at most one handler per name.
C14_HandlerParameters ==
    /\ \A i \in 1..Len(boundary_handler) :
          LET h == boundary_handler[i]
          IN  IF h.name \in cfg.own
              THEN h.args = [from |-> h.name, keys |-> self_params[h.name]]
              ELSE h.args = [from |-> "params",
                             keys |-> GlobalKeys(cfg, self_params)]
    /\ \A i, j \in 1..Len(boundary_handler) :
          i # j => boundary_handler[i].name # boundary_handler[j].name

C14_Witness ==
    /\ Len(boundary_handler) = 2
    /\ boundary_handler[1].args.from = "PrecipChanger"
    /\ boundary_handler[2].args.from = "params"
    /\ setup_calls = 1
    /\ last_setup.request.name = "PrecipChanger"
    /\ last_setup.error = NoError

\* C15: update_boundary_conditions(dt) runs every registered handler once
\* with dt, and changes nothing else; without handlers it changes nothing.
C15_EveryHandlerOnce ==
    [][ubc_calls' = ubc_calls + 1
       => /\ Len(boundary_handler') = Len(boundary_handler)
          /\ \A i \in 1..Len(boundary_handler) :
                /\ boundary_handler'[i].name = boundary_handler[i].name
                /\ boundary_handler'[i].args = boundary_handler[i].args
                /\ boundary_handler'[i].dts =
                      Append(boundary_handler[i].dts, ubc_dt')
          /\ UNCHANGED <<model_time, iteration, self_params, state>>]_vars

C15_Witness ==
    /\ ubc_calls = 2
    /\ Len(boundary_handler) = 2
    /\ \A i \in 1..2 : boundary_handler[i].dts = <<F0_025, F0_5>>

\* the minutes a duration reported by the scheduler stands for, its days left
\* out
MinutesOfDay(r) ==
    (IF r.hours = -1 THEN 0 ELSE 60 * r.hours) + r.minutes

\* the minutes a duration reported by the scheduler stands for
ReportedMinutes(r) ==
    (IF r.days = -1 THEN 0 ELSE 24 * 60 * r.days) + MinutesOfDay(r)

\* C16: with the wall-time check and the save option on, a call that the
\* scheduler answers with a duration below the cutoff writes the checkpoint
\* and then ends the process by sys.exit(), with no error; a call answered
\* with a duration at or above the cutoff returns and does neither.
C16_CheckpointThenExit ==
    (/\ last_check.called
     /\ cfg.opt_walltime /\ cfg.opt_save
     /\ last_check.job_id /\ last_check.squeue = "found"
     /\ last_check.reply.kind = "duration")
    => IF ReportedMinutes(last_check.reply) < last_check.cut_off_time
       THEN /\ last_check.outcome = "exited"
            /\ last_check.error = NoError
            /\ pickle_file.kind = "pickle"
       ELSE last_check.outcome = "returned"

\* C17: a call made without a scheduler job (SLURM_JOB_ID is not set), or with
\* the wall-time option off, returns with no error, does not start squeue,
\* and changes neither the lifecycle, the clock, the iteration, the
\* checkpoint file nor any other part of the model.
C17_NoSchedulerNoOp ==
    [][(/\ walltime_calls' = walltime_calls + 1
        /\ (~last_check'.job_id \/ ~cfg.opt_walltime))
       => /\ last_check'.outcome = "returned"
          /\ last_check'.error = NoError
          /\ ~last_check'.queried
          /\ UNCHANGED <<state, pc, error, model_time, iteration, pickle_file,
                         outlet_elevation_obj, dict_random_state,
                         output_writers, boundary_handler, outputs, np_random,
                         finalize_calls, remove_calls>>]_vars

C17_Witness ==
    /\ last_check.called
    /\ cfg.opt_walltime /\ cfg.opt_save
    /\ ~last_check.job_id
    /\ last_check.cut_off_time > 0
    /\ last_check.outcome = "returned"
    /\ state = "RUNNING"

\* C18: every duration the scheduler prints is converted to minutes: without
\* a days segment to 60 * hours + minutes (hours 0 when there is no hours
\* segment), with a days segment to no less than that, and never with an
\* error.
C18_DurationConverted ==
    (/\ last_check.queried
     /\ last_check.squeue = "found"
     /\ last_check.output = "str"
     /\ last_check.reply.kind = "duration")
    => /\ last_check.remaining_time # -1
       /\ last_check.remaining_time >= MinutesOfDay(last_check.reply)
       /\ last_check.reply.days = -1
             => last_check.remaining_time = MinutesOfDay(last_check.reply)

Min2(a, b) == IF a <= b THEN a ELSE b

\* C19: after a second or later reset_random_seed() the stream gives again
\* what it gave after an earlier reset: the pairs of the variable-duration
\* mode and the intensities of the fixed-duration mode agree, position by
\* position, however many were taken before the reset.
C19_ResetReproduces ==
    resets >= 2
    => \A i \in 1..Min2(Len(draws), Len(reference)) : draws[i] = reference[i]

C19_Witness ==
    /\ resets >= 2
    /\ Len(reference) = 3
    /\ Len(draws) = 2
    /\ draws[2] = reference[2]
    /\ draws[1] # draws[2]
    /\ cfg.opt_stochastic_duration

\* the recorded events, their duration and rate, in order
Events(rr) ==
    IF rr.kind = "None" THEN <<>>
    ELSE [i \in 1..Len(rr.event_duration) |->
            [event_duration |-> rr.event_duration[i],
             rainfall_rate |-> rr.rainfall_rate[i]]]

\* |x|
FAbs(x) == Float(FALSE, x.mag)

\* x * 2^-51, about one unit in the last place of x
Rounding(x) == Float(FALSE, MagShr(x.mag, 51))

\* the two events a step of the fixed-duration mode has just recorded
WetOfStep == Events(rain_record')[Len(Events(rain_record)) + 1]
DryOfStep == Events(rain_record')[Len(Events(rain_record)) + 2]

C30_SubStepPositive ==
    [][(pc = "run_for" /\ steps' = steps + 1)
       => /\ Positive(rf'.dt)
          /\ ~FLT(dt0, rf'.dt)
          /\ FLT(rf'.dt, dt0) => ~rf'.keep_running
          /\ ~FLT(model_time', model_time)]_vars

\* C29: a call of pickle_self that returns leaves the engine as it was: the
\* outlet-elevation object keeps its value and kind, no attribute is added,
\* and clock, iteration and position in the run are the same.
C29_PickleLeavesEngine ==
    [][(pickle_calls' = pickle_calls + 1 /\ state' = state)
       => UNCHANGED <<outlet_elevation_obj, dict_random_state, model_time,
                      iteration, pc, rf, output_writers, boundary_handler>>]_vars

\* C26: get_parameter_from_exponent raises a ValueError when the dictionary
\* has both the absolute and the exponent form; returns the absolute value
\* when only that form is present; returns 10 to the power of the exponent
\* when only the exponent form is present (with a numeric exponent); with
\* neither it raises a ValueError when raise_error is set and returns None
\* otherwise; and no call changes the configuration.
C26_GetParameterFromExponent ==
    [][get_calls' = get_calls + 1 =>
        LET g == last_get'
            absolute == Lookup(cfg.model_params, g.param_name)
            exponent == Lookup(cfg.model_params, g.param_name \o "_exp")
            has_abs == absolute.kind # "missing"
            has_exp == exponent.kind # "missing"
        IN /\ cfg' = cfg
           /\ (has_abs /\ has_exp) => g.error.type = "ValueError"
           /\ (has_abs /\ ~has_exp) => g.error = NoError /\ g.value = absolute
           /\ (~has_abs /\ has_exp /\ exponent.kind = "num") =>
                 /\ g.error = NoError
                 /\ g.value.kind = "num"
                 /\ exponent.val = FromInt(-1) => g.value.val = F0_1
                 /\ exponent.val = FZero => g.value.val = F1
                 /\ exponent.val = FromInt(2) => g.value.val = FromInt(100)
           /\ (~has_abs /\ ~has_exp /\ g.raise_error) => g.error.type = "ValueError"
           /\ (~has_abs /\ ~has_exp /\ ~g.raise_error) =>
                 g.error = NoError /\ g.value = NoneVal]_vars

\* An exponent of 2 alone in the dictionary has been turned into 100.
C26_Witness ==
    /\ last_get.called
    /\ last_get.param_name = "water_erodability"
    /\ cfg.model_params["water_erodability"] = Missing
    /\ cfg.model_params["water_erodability_exp"] = Num(FromInt(2))
    /\ last_get.value = Num(FromInt(100))

\* C25: for a rainfall rate P >= 0 and an infiltration capacity I >= 0 the
\* runoff R of calc_runoff_and_discharge satisfies 0 <= R <= P; it is
\* P - I*(1 - exp(-P/I)), or zero when that is negative, when both are
\* positive; it is P when I = 0 and 0 when P = 0.
C25_RunoffWithinRain ==
    (runoff_calls > 0 /\ FGE(rain_rate, FZero) /\ FGE(infilt, FZero)) =>
        /\ FGE(runoff, FZero)
        /\ FGE(rain_rate, runoff)
        /\ (FLT(FZero, rain_rate) /\ FLT(FZero, infilt)) =>
              LET r == FSub(rain_rate, FMul(infilt, FSub(F1, exp_value)))
              IN  runoff = IF FLT(r, FZero) THEN FZero ELSE r
        /\ infilt = FZero => runoff = rain_rate
        /\ rain_rate = FZero => runoff = FZero

\* A rain rate of 1.5 * 2^-54 on a capacity of 1: 1 - exp(-P/I) is 2^-53,
\* more than P, and the negative difference has been replaced by zero.
C25_Witness ==
    /\ runoff_calls > 0
    /\ rain_rate = OneAndHalf(-54)
    /\ infilt = F1
    /\ exp_value = FSub(F1, Pow2F(-53))
    /\ runoff = FZero

\* C27: when a step of BasicHySa leaves a NaN or an Inf in a node field, that
\* run_one_step ends the process with SystemExit, and after it no step is
\* taken and no output is written; a step that leaves every field finite
\* ends nothing.
C27_UnstableStepExits ==
    [][/\ (steps' = steps + 1 /\ ~at_node_finite') =>
             (error'.type = "SystemExit" /\ state' = "ABORTED")
       /\ (steps' = steps + 1 /\ at_node_finite') =>
             (error' = NoError /\ state' = "RUNNING")
       /\ error.type = "SystemExit" =>
             (steps' = steps /\ outputs' = outputs /\ fired' = fired)]_vars

\* The second step of a run has left a field non-finite and the process
\* has ended.
C27_Witness ==
    /\ cfg.model = "BasicHySa"
    /\ steps = 2
    /\ ~at_node_finite
    /\ error.type = "SystemExit"

\* C28: with a PrecipChanger registered every step sets the erodabilities of
\* the eroder to the model's own erodabilities times the handler's factor
\* at that time; the model's own erodabilities never change; without a
\* PrecipChanger the eroder keeps the model's erodabilities.
C28_ErodabilityFromBase ==
    [][/\ (steps' = steps + 1 /\ HasPrecipChanger(boundary_handler)) =>
             LET f == GetErodabilityAdjustmentFactor(boundary_handler)
             IN  /\ eroder'.K_sed = FMul(K_sed, f)
                 /\ eroder'.K_br = FMul(K_br, f)
       /\ (steps' = steps + 1 /\ ~HasPrecipChanger(boundary_handler)) =>
             eroder' = [K_sed |-> K_sed, K_br |-> K_br]
       /\ state # "UNINITIALIZED" => (K_sed' = K_sed /\ K_br' = K_br)]_vars

\* After two steps with the factors 0.5 and 2 the eroder holds twice the
\* model's erodability, not the product of both factors.
C28_Witness ==
    /\ cfg.model = "BasicHySa"
    /\ HasPrecipChanger(boundary_handler)
    /\ steps = 2
    /\ K_sed = F0_2
    /\ eroder.K_sed = FMul(F0_2, FromInt(2))
    /\ eroder.K_sed # K_sed

\* the sum of a sequence of durations, added in order
RECURSIVE SumOf(_)
SumOf(ds) == IF ds = <<>> THEN FZero ELSE FAdd(SumOf(SubSeq(ds, 1, Len(ds) - 1)), ds[Len(ds)])

\* the four lists of a rain record
RainLists(rr) == <<rr.event_start_time, rr.event_duration, rr.rainfall_rate, rr.runoff_rate>>

\* C22: a stochastic model given both a frequency file and the
\* variable-duration mode is never constructed: the constructor fails with
\* a ValueError and the engine takes no step.
C22_FrequencyWithStochasticDuration ==
    (/\ cfg.model \in StochasticModels
     /\ cfg.opt_stochastic_duration
     /\ HasKey(cfg.model_params, "frequency_filename")
     /\ state # "UNINITIALIZED")
    => (/\ state = "FAILED"
        /\ error.type = "ValueError"
        /\ steps = 0
        /\ rf = NoRunFor)

\* The constructor has refused a frequency file in variable-duration mode.
C22_Witness ==
    /\ cfg.model \in StochasticModels
    /\ cfg.opt_stochastic_duration
    /\ HasKey(cfg.model_params, "frequency_filename")
    /\ state = "FAILED"
    /\ error.type = "ValueError"

\* C23: in fixed-duration mode the constructor fails with a ValueError
\* exactly when the number of sub time steps is given and is not whole; an
\* absent or whole number is accepted.
C23_WholeSubTimeSteps ==
    (/\ cfg.model \in StochasticModels
     /\ ~cfg.opt_stochastic_duration
     /\ state # "UNINITIALIZED")
    => LET n == cfg.model_params["number_of_sub_time_steps"]
       IN  IF n = Num(F1_5)
           THEN state = "FAILED" /\ error.type = "ValueError" /\ steps = 0
           ELSE state = "READY" /\ error = NoError

\* The constructor has refused 1.5 sub time steps in fixed-duration mode.
C23_Witness ==
    /\ ~cfg.opt_stochastic_duration
    /\ cfg.model_params["number_of_sub_time_steps"] = Num(F1_5)
    /\ state = "FAILED"
    /\ error.type = "ValueError"

\* C24: without record_rain set the rain record is None and stays None;
\* with it the constructor leaves four empty lists, every step appends one
\* entry per event to each of the four (one event in variable-duration
\* mode, the wet and the dry event in fixed-duration mode), the four lists
\* have the same length at all times, and the entries already recorded are
\* kept as they are.
C24_RainRecord ==
    [][/\ (state' = "READY" /\ ~RecordRain(cfg)) => rain_record' = NoRainRecord
       /\ (state = "UNINITIALIZED" /\ state' = "READY" /\ RecordRain(cfg))
             => rain_record' = EmptyRainRecord
       /\ (state = "READY" /\ state' = "READY" /\ RecordRain(cfg)) =>
             /\ rain_record'.kind = "dict"
             /\ \A i \in 1..4 :
                   LET old == RainLists(rain_record)[i]
                       new == RainLists(rain_record')[i]
                   IN  /\ Len(new) = Len(RainLists(rain_record')[1])
                       /\ Len(new) >= Len(old)
                       /\ SubSeq(new, 1, Len(old)) = old
                       /\ Len(new) - Len(old) =
                             IF steps' = steps THEN 0
                             ELSE IF cfg.opt_stochastic_duration THEN 1 ELSE 2]_vars

\* Three events of the variable-duration mode have been recorded.
C24_Witness ==
    /\ RecordRain(cfg)
    /\ cfg.opt_stochastic_duration
    /\ rain_record.kind = "dict"
    /\ Len(rain_record.event_start_time) = 3
    /\ Len(rain_record.runoff_rate) = 3
    /\ steps = 3

====
